---- MODULE Spec2Model ----
(***************************************************************************)
(* Verification model of the GoHighLevel <-> Evolution API bridge          *)
(* (hayttle/ghl-app).  The model covers the installation store (model.ts), *)
(* the token handling of GHL.requests / GHL.refreshAccessToken (ghl.ts),   *)
(* the CRM webhook POST /webhook/ghl and the gateway webhook               *)
(* POST /webhook/evolution with its global deduplication cache (index.ts). *)
(*                                                                         *)
(* Node.js runs one callback at a time: a handler's code between two       *)
(* awaits is one atomic step, and handlers of different requests           *)
(* interleave at their awaits.  Every action below is one such step.       *)
(***************************************************************************)
EXTENDS Integers, Sequences, FiniteSets, TLC

(***************************************************************************)
(* Bounds of the model                                                     *)
(***************************************************************************)
\* number of gateway webhook deliveries in one run
MaxDeliveries == 3
\* number of CRM requests made through requests(resourceId) in one run
MaxRequests == 3
\* number of requests to POST /webhook/ghl and to the send endpoint in one run
MaxEvents == 1
\* number of UNINSTALL and unhandled events sent to POST /webhook/ghl in one run
MaxHooks == 3
\* expires_in of the token pairs the CRM issues, in seconds
TokenLifeS == 20

(***************************************************************************)
(* Program constants                                                       *)
(***************************************************************************)
\* setTimeout(..., 120000): eviction delay of a dedup entry, in ms
DEDUP_TTL_MS == 120000
\* if (timeDiff < 5000): a provider timestamp this close to now is "recent"
RECENT_MS == 5000
\* keyTimeDiff < 10000: window of the similar-message scan
SIMILAR_MS == 10000
\* timestamp * 1000: provider timestamps are in seconds
MS_PER_S == 1000

(***************************************************************************)
(* Values                                                                  *)
(***************************************************************************)
\* a JavaScript undefined / null / missing property
Absent == "<absent>"
\* `${x}` in a template string: undefined prints as the text "undefined"
Str(x) == IF x = Absent THEN "undefined" ELSE x

\* Date.now() at the first step of a run, in ms
StartMs == 100000
MsgIds == {"m1", "m2"}
Jids == {"5511@s.whatsapp.net", "5522@s.whatsapp.net"}
Instances == {"i1", "i2"}
LocIds == {"L1", "L2"}

J1 == "5511@s.whatsapp.net"
J2 == "5522@s.whatsapp.net"
\* provider timestamp (s) of the events of a run: the start time of the run
T1 == StartMs \div MS_PER_S

\* participant.replace("@s.whatsapp.net", "") prefixed with "+"
PhoneOf(jid) ==
  CASE jid = J1 -> "+5511"
    [] jid = J2 -> "+5522"
    [] OTHER -> "+" \o jid

(***************************************************************************)
(* State                                                                   *)
(***************************************************************************)
VARIABLES
  installations,           \* table installations, by location_id
  now,                     \* Date.now(), in ms
  recentProcessedMessages, \* global.recentProcessedMessages: key -> time of insertion
  timers,                  \* pending setTimeout callbacks: <<key, due>>
  gw,                      \* gateway webhook deliveries (POST /webhook/evolution)
  delivered,               \* number of gateway webhook deliveries so far
  crmContacts,             \* contacts of the CRM: <<locationId, phone>>
  crmConversations,        \* conversations of the CRM, by the <<locationId, phone>> of their contact
  idp,                     \* the CRM's OAuth side: tokens issued and accepted
  rq,                      \* CRM requests made through requests(resourceId)
  started,                 \* number of such requests so far
  req,                     \* requests to POST /webhook/ghl and to the send endpoint
  received                 \* number of such requests so far

vars == <<installations, now, recentProcessedMessages, timers, gw, delivered,
          crmContacts, crmConversations, idp, rq, started, req, received>>

\* the state of the gateway webhook, and the state of the token handling
gwVars == <<recentProcessedMessages, timers, gw, delivered, crmContacts,
           crmConversations>>
tokenVars == <<idp, rq, started>>
ghlVars == <<req, received>>

\* the time the tenant of a run was installed, and the expiry of its token
InstalledMs == StartMs - MS_PER_S
ExpiryMs == InstalledMs + TokenLifeS * MS_PER_S

NoRow == [location_id |-> Absent]

\* process.env.GHL_APP_CLIENT_ID and process.env.GHL_APP_CLIENT_SECRET
GHL_APP_CLIENT_ID == "app-id"
GHL_APP_CLIENT_SECRET == "app-secret"

Row(loc, inst, provider, token) ==
  [location_id |-> loc,
   access_token |-> token,
   refresh_token |-> "rt0",
   expires_in |-> TokenLifeS,
   updated_at |-> InstalledMs,
   last_sync_at |-> InstalledMs,
   integration_status |-> "active",
   evolution_instance_name |-> inst,
   conversation_provider_id |-> provider,
   client_id |-> GHL_APP_CLIENT_ID,
   client_secret |-> GHL_APP_CLIENT_SECRET]

\* the requests the server handles at the same time
Deliveries == {"d1", "d2"}
Callers == {"c1", "c2"}
Idle == [pc |-> "idle"]
\* a CRM that has issued no token
NoTokens == [accepted |-> <<>>, refresh |-> Absent, issued |-> 0, shape |-> "wrapped"]

(***************************************************************************)
(* model.ts: the installation store                                        *)
(***************************************************************************)
\* SELECT * FROM installations WHERE evolution_instance_name = $1 LIMIT 1:
\* the rows the query may return (any one of them when several match)
GetInstallationByInstanceName_Any(name) ==
  {installations[l] : l \in {x \in LocIds : installations[x] # NoRow}}
GetInstallationByInstanceName(name) ==
  {installations[l] : l \in {x \in LocIds :
      /\ installations[x] # NoRow
      /\ installations[x].evolution_instance_name = name}}

(***************************************************************************)
(* model.ts: updates of an installation                                    *)
(***************************************************************************)
\* Model.updateConversationProviderId
UpdateConversationProviderId(row, id, t) ==
  [row EXCEPT !.conversation_provider_id = id, !.updated_at = t]

\* Model.updateLastSyncTime: SET last_sync_at = NOW(), updated_at = NOW()
UpdateLastSyncTime(row, t) ==
  IF row = NoRow THEN row
  ELSE [row EXCEPT !.last_sync_at = t, !.updated_at = t]

(***************************************************************************)
(* index.ts: POST /webhook/evolution                                       *)
(***************************************************************************)
\* messageData.messageTimestamp || Date.now(); an absent timestamp is 0 here
Timestamp(ev, t) == IF ev.ts = 0 THEN t ELSE ev.ts

\* `${messageId}_${senderPhone}_${recipientPhone}_${timestamp}`, as the parts
\* that key.split("_") gives back
DedupKey(ev, t) == <<Str(ev.id), Str(ev.jid), Str(ev.part), Timestamp(ev, t)>>

\* recentKeys.filter(...): cached keys with the same sender and recipient whose
\* key timestamp is less than 10 s before now
SimilarMessages(cache, ev, t) ==
  {k \in DOMAIN cache :
     /\ Len(k) >= 4
     /\ k[2] = ev.jid
     /\ k[3] = ev.part
     /\ t - k[4] * MS_PER_S < SIMILAR_MS}

\* The text relayed for messageData.message, which holds one content variant
\* (m.text is its text or caption, "" when it has none):
\* if (message.conversation) ... else if (message.extendedTextMessage) ...
MessageText_Caption(m) ==
  CASE m.variant = "conversation" /\ m.text # "" -> m.text
    [] m.variant = "extendedTextMessage" -> m.text
    [] m.variant = "imageMessage" -> IF m.text # "" THEN m.text ELSE "[IMAGEM]"
    [] m.variant = "audioMessage" -> "[ÁUDIO]"
    [] m.variant = "videoMessage" -> "[VÍDEO]"
    [] m.variant = "documentMessage" -> "[DOCUMENTO]"
    [] OTHER -> "[MENSAGEM]"
MessageText(m) ==
  CASE m.variant = "conversation" /\ m.text # "" -> m.text
    [] m.variant = "extendedTextMessage" -> m.text
    [] m.variant = "imageMessage" -> "[IMAGEM]"
    [] m.variant = "audioMessage" -> "[ÁUDIO]"
    [] m.variant = "videoMessage" -> "[VÍDEO]"
    [] m.variant = "documentMessage" -> "[DOCUMENTO]"
    [] OTHER -> "[MENSAGEM]"

\* the admission decision of a fromMe=true event against the cache at time t
Admission_NoKeyCheck(cache, ev, t) ==
  IF /\ t - Timestamp(ev, t) * MS_PER_S < RECENT_MS
     /\ SimilarMessages(cache, ev, t) # {}
  THEN "similar"
  ELSE "admitted"
Admission(cache, ev, t) ==
  IF DedupKey(ev, t) \in DOMAIN cache THEN "duplicate"
  ELSE IF /\ t - Timestamp(ev, t) * MS_PER_S < RECENT_MS
          /\ SimilarMessages(cache, ev, t) # {}
       THEN "similar"
       ELSE "admitted"

\* A delivery in the handler: the time it was received, the event's instance,
\* its message content, the phone and the text to relay, its dedup key (<<>> when the event has
\* none), the installation the relay found, and the calls the request has made
\* so far.  Of a fromMe=false delivery it also tells what was the case when it
\* was received: whether the number had no contact in the CRM (fresh), whether
\* a message of the number had been relayed with success on its own (after); and
\* whether no other delivery of the number has been in the handler with it
\* (alone), and whether the contact it created was a second one of the
\* number (dup).
Request(pc, ev, key, phone) ==
  [pc |-> pc, status |-> 0, outcome |-> "", at |-> now,
   instance |-> ev.instance, phone |-> phone,
   message |-> ev.message, text |-> MessageText(ev.message), key |-> key,
   target |-> NoRow, log |-> <<>>,
   event |-> ev.event, fromMe |-> ev.fromMe, fresh |-> FALSE, after |-> FALSE, alone |-> TRUE,
   dup |-> FALSE]

\* the steps of the relay of a fromMe=false delivery
InboundPcs ==
  {"in_lookup", "in_info", "in_search", "in_create", "in_convsearch",
   "in_convcreate", "in_post", "in_sync"}

\* a delivery that is in its handler
InHandler(r) == r.pc \notin {"idle", "done"}

\* the fromMe=false delivery of a number, as received in the state g of the
\* handlers by handler p
Inbound(g, p, ev) ==
  LET phone == PhoneOf(ev.jid)
  IN [Request("in_lookup", ev, <<>>, phone) EXCEPT
        !.fresh = \A l \in LocIds : <<l, phone>> \notin crmContacts,
        !.after = \E q \in Deliveries :
                    /\ g[q].pc = "done"
                    /\ ~g[q].fromMe
                    /\ g[q].status = 200
                    /\ g[q].outcome = "relayed"
                    /\ g[q].alone
                    /\ g[q].instance = ev.instance
                    /\ g[q].phone = phone,
        !.alone = \A q \in Deliveries \ {p} :
                    InHandler(g[q]) => g[q].phone # phone]

\* the handlers once handler p has started the relay of a message of a
\* number: the fromMe=false deliveries of that number are no longer alone
Overlapped(g, p, phone) ==
  [q \in Deliveries |->
     IF q # p /\ g[q].pc \in InboundPcs /\ g[q].phone = phone
     THEN [g[q] EXCEPT !.alone = FALSE]
     ELSE g[q]]

\* res.status(status).json(...) of a request r
Answered(r, status, outcome) ==
  [r EXCEPT !.pc = "done", !.status = status, !.outcome = outcome]

\* setTimeout(() => delete cache[dedupKey], 120000): when the callback is due
EvictionDue_Recent(t) == t + RECENT_MS
EvictionDue(t) == t + DEDUP_TTL_MS

\* req.body.event !== "messages.upsert" ends the handler with 200
IsMessageEvent_Any(ev) == TRUE
IsMessageEvent(ev) == ev.event = "messages.upsert"

\* const isFromMe = messageData.key.fromMe === true
IsFromMe_Never(ev) == FALSE
IsFromMe(ev) == ev.fromMe = TRUE

\* The handler of POST /webhook/evolution up to its first await.
GwReceive(p, ev) ==
  /\ gw[p].pc \in {"idle", "done"}
  /\ delivered < MaxDeliveries
  /\ delivered' = delivered + 1
  /\ LET key == DedupKey(ev, now)
         participant == IF ev.part # Absent THEN ev.part ELSE ev.jid
         decision == Admission(recentProcessedMessages, ev, now)
         none == Request("done", ev, <<>>, Absent)
     IN
     IF ~IsMessageEvent(ev) THEN
       /\ gw' = [gw EXCEPT ![p] = Answered(none, 200, "ignored")]
       /\ UNCHANGED <<recentProcessedMessages, timers>>
     ELSE IF ev.shape # "ok" THEN
       /\ gw' = [gw EXCEPT ![p] = Answered(none, 400, "invalid")]
       /\ UNCHANGED <<recentProcessedMessages, timers>>
     ELSE IF IsFromMe(ev) THEN
       IF decision # "admitted" THEN
         /\ gw' = [gw EXCEPT ![p] =
                     Answered(Request("done", ev, key, Absent), 200, decision)]
         /\ UNCHANGED <<recentProcessedMessages, timers>>
       ELSE
         /\ recentProcessedMessages' = recentProcessedMessages @@ (key :> now)
         /\ timers' = timers \cup {<<key, EvictionDue(now)>>}
         /\ IF participant = Absent
            THEN gw' = [gw EXCEPT ![p] =
                     Answered(Request("done", ev, key, Absent), 400, "norecipient")]
            ELSE gw' = Overlapped(
                     [gw EXCEPT ![p] =
                        Request("ob_lookup", ev, key, PhoneOf(participant))],
                     p, PhoneOf(participant))
     ELSE
       /\ UNCHANGED <<recentProcessedMessages, timers>>
       /\ IF ev.jid = Absent
          THEN gw' = [gw EXCEPT ![p] = Answered(none, 400, "nosender")]
          ELSE gw' = Overlapped([gw EXCEPT ![p] = Inbound(gw, p, ev)],
                                p, PhoneOf(ev.jid))
  /\ UNCHANGED <<installations, now, crmContacts, crmConversations, tokenVars, ghlVars>>

\* The setTimeout callback of a dedup entry, at or after its due time.
EvictTimer(t) ==
  /\ t \in timers
  /\ now >= t[2]
  /\ timers' = timers \ {t}
  /\ IF t[1] \in DOMAIN recentProcessedMessages
     THEN recentProcessedMessages' =
            [k \in DOMAIN recentProcessedMessages \ {t[1]} |->
               recentProcessedMessages[k]]
     ELSE UNCHANGED recentProcessedMessages
  /\ UNCHANGED <<installations, now, gw, delivered, crmContacts, crmConversations, tokenVars, ghlVars>>

\* Time passes: the run is observed at its start, once the recency window of
\* the start has closed, when the entries of the start are due, and once the
\* entries inserted after the recency window are due.
Instants ==
  {StartMs, StartMs + RECENT_MS, StartMs + DEDUP_TTL_MS,
   StartMs + DEDUP_TTL_MS + RECENT_MS}
Tick(t) ==
  /\ t > now
  /\ now' = t
  /\ UNCHANGED <<installations, gwVars, ghlVars, tokenVars, ghlVars>>

(***************************************************************************)
(* index.ts: processOutboundMessageFromWhatsApp                            *)
(***************************************************************************)
\* request r after one more call to the CRM or to the gateway
Called(r, op, loc, arg) == [r EXCEPT !.log = Append(@, <<op, loc, arg>>)]

\* request r after a post of its text as the message of a conversation
Posted_Reply(r, op, loc, arg) ==
  [r EXCEPT !.log = Append(Append(@, <<op, loc, arg, r.text>>),
                           <<"sendText", r.instance, r.phone>>)]
Posted(r, op, loc, arg) ==
  [r EXCEPT !.log = Append(@, <<op, loc, arg, r.text>>)]

\* catch (error) { return {success: false, ...} }, then res.status(500)
ObFail(r, why) == Answered(r, 500, why)

\* 3. the conversationProviderId of the installation, checked once the
\* contact is known
ObProviderCheck_Conversation(r) ==
  IF r.target.conversation_provider_id = Absent
  THEN ObFail(r, "noprovider")
  ELSE [Called(r, "conversationSearch", r.target.location_id, r.phone)
          EXCEPT !.pc = "ob_post"]
ObProviderCheck(r) ==
  IF r.target.conversation_provider_id = Absent
  THEN ObFail(r, "noprovider")
  ELSE [r EXCEPT !.pc = "ob_post"]

\* 1. getInstallationByInstanceName, then the locationId and token checks
ObLookup(p) ==
  /\ gw[p].pc = "ob_lookup"
  /\ IF GetInstallationByInstanceName(gw[p].instance) = {} THEN
       gw' = [gw EXCEPT ![p] = ObFail(@, "noinstallation")]
     ELSE \E row \in GetInstallationByInstanceName(gw[p].instance) :
       IF row.access_token = Absent
       THEN gw' = [gw EXCEPT ![p] = ObFail(@, "notoken")]
       ELSE gw' = [gw EXCEPT ![p].pc = "ob_loctest", ![p].target = row]
  /\ UNCHANGED <<installations, now, recentProcessedMessages, timers, delivered,
                 crmContacts, crmConversations, tokenVars, ghlVars>>

\* GET /locations/{resourceId} with the token of the installation
ObLocationTest(p) ==
  /\ gw[p].pc = "ob_loctest"
  /\ LET r == Called(gw[p], "locationGet", gw[p].target.location_id, "")
     IN \E ok \in BOOLEAN :
          gw' = [gw EXCEPT ![p] =
                   IF ok THEN [r EXCEPT !.pc = "ob_search"]
                   ELSE ObFail(r, "noaccess")]
  /\ UNCHANGED <<installations, now, recentProcessedMessages, timers, delivered,
                 crmContacts, crmConversations, tokenVars, ghlVars>>

\* 2. GET /contacts/ by phone
ObContactSearch(p) ==
  /\ gw[p].pc = "ob_search"
  /\ LET loc == gw[p].target.location_id
         r == Called(gw[p], "contactSearch", loc, gw[p].phone)
     IN \E ok \in BOOLEAN :
          gw' = [gw EXCEPT ![p] =
                   IF ~ok THEN ObFail(r, "searchfailed")
                   ELSE IF <<loc, gw[p].phone>> \in crmContacts
                        THEN ObProviderCheck(r)
                        ELSE [r EXCEPT !.pc = "ob_taginfo"]]
  /\ UNCHANGED <<installations, now, recentProcessedMessages, timers, delivered,
                 crmContacts, crmConversations, tokenVars, ghlVars>>

\* getInstallationInfo(resourceId), for the tag of the new contact
ObTagInfo(p) ==
  /\ gw[p].pc = "ob_taginfo"
  /\ gw' = [gw EXCEPT ![p].pc = "ob_create"]
  /\ UNCHANGED <<installations, now, recentProcessedMessages, timers, delivered,
                 crmContacts, crmConversations, tokenVars, ghlVars>>

\* POST /contacts/
ObContactCreate(p) ==
  /\ gw[p].pc = "ob_create"
  /\ LET loc == gw[p].target.location_id
         r == Called(gw[p], "contactCreate", loc, gw[p].phone)
     IN \E ok \in BOOLEAN :
          IF ok THEN
            /\ crmContacts' = crmContacts \cup {<<loc, gw[p].phone>>}
            /\ gw' = [gw EXCEPT ![p] = ObProviderCheck(r)]
          ELSE
            /\ gw' = [gw EXCEPT ![p] = ObFail(r, "createfailed")]
            /\ UNCHANGED crmContacts
  /\ UNCHANGED <<installations, now, recentProcessedMessages, timers, delivered,
                 crmConversations, tokenVars, ghlVars>>

\* 4. POST /conversations/messages, type Custom, with the
\* conversationProviderId of the installation
ObMessagePost(p) ==
  /\ gw[p].pc = "ob_post"
  /\ LET r == Posted(gw[p], "messagePostCustom", gw[p].target.location_id,
                     gw[p].target.conversation_provider_id)
     IN \E ok \in BOOLEAN :
          gw' = [gw EXCEPT ![p] =
                   IF ok THEN Answered(r, 200, "relayed")
                   ELSE ObFail(r, "postfailed")]
  /\ UNCHANGED <<installations, now, recentProcessedMessages, timers, delivered,
                 crmContacts, crmConversations, tokenVars, ghlVars>>

ObStep(p) ==
  \/ ObLookup(p)
  \/ ObLocationTest(p)
  \/ ObContactSearch(p)
  \/ ObTagInfo(p)
  \/ ObContactCreate(p)
  \/ ObMessagePost(p)

(***************************************************************************)
(* index.ts: POST /webhook/evolution, fromMe=false;                        *)
(* ghl.ts: IntegrationService.processIncomingMessage                       *)
(***************************************************************************)
\* searchResponse.data.contacts && searchResponse.data.contacts.length > 0
ContactFound_Never(contacts, loc, phone) == FALSE
ContactFound(contacts, loc, phone) == <<loc, phone>> \in contacts

\* getInstallationByInstanceName(instanceName): 404 when no installation has
\* the instance; resourceId is the locationId of the row found
InLookup(p) ==
  /\ gw[p].pc = "in_lookup"
  /\ IF GetInstallationByInstanceName(gw[p].instance) = {} THEN
       gw' = [gw EXCEPT ![p] = Answered(@, 404, "noinstallation")]
     ELSE \E row \in GetInstallationByInstanceName(gw[p].instance) :
       gw' = [gw EXCEPT ![p].pc = "in_info", ![p].target = row]
  /\ UNCHANGED <<installations, now, recentProcessedMessages, timers, delivered,
                 crmContacts, crmConversations, tokenVars, ghlVars>>

\* processIncomingMessage: getInstallationInfo(resourceId)
InInfo(p) ==
  /\ gw[p].pc = "in_info"
  /\ gw' = [gw EXCEPT ![p] =
              IF installations[gw[p].target.location_id] = NoRow
              THEN ObFail(@, "INSTALLATION_NOT_FOUND")
              ELSE [@ EXCEPT !.pc = "in_search"]]
  /\ UNCHANGED <<installations, now, recentProcessedMessages, timers, delivered,
                 crmContacts, crmConversations, tokenVars, ghlVars>>

\* findOrCreateGHLContact: GET /contacts with query: phoneNumber
InContactSearch(p) ==
  /\ gw[p].pc = "in_search"
  /\ LET loc == gw[p].target.location_id
         r == Called(gw[p], "contactSearch", loc, gw[p].phone)
     IN \E ok \in BOOLEAN :
          gw' = [gw EXCEPT ![p] =
                   IF ~ok THEN ObFail(r, "searchfailed")
                   ELSE IF ContactFound(crmContacts, loc, gw[p].phone)
                        THEN [r EXCEPT !.pc = "in_convsearch"]
                        ELSE [r EXCEPT !.pc = "in_create"]]
  /\ UNCHANGED <<installations, now, recentProcessedMessages, timers, delivered,
                 crmContacts, crmConversations, tokenVars, ghlVars>>

\* findOrCreateGHLContact: POST /contacts/; the contact is a second one of
\* the number when the number got a contact since the search
InContactCreate_Guarded(p) ==
  /\ gw[p].pc = "in_create"
  /\ LET loc == gw[p].target.location_id
         r == Called(gw[p], "contactCreate", loc, gw[p].phone)
     IN IF ContactFound(crmContacts, loc, gw[p].phone) THEN
          /\ gw' = [gw EXCEPT ![p].pc = "in_convsearch"]
          /\ UNCHANGED crmContacts
        ELSE \E ok \in BOOLEAN :
          IF ok THEN
            /\ crmContacts' = crmContacts \cup {<<loc, gw[p].phone>>}
            /\ gw' = [gw EXCEPT ![p] = [r EXCEPT !.pc = "in_convsearch"]]
          ELSE
            /\ gw' = [gw EXCEPT ![p] = ObFail(r, "createfailed")]
            /\ UNCHANGED crmContacts
  /\ UNCHANGED <<installations, now, recentProcessedMessages, timers, delivered,
                 crmConversations, tokenVars, ghlVars>>
InContactCreate(p) ==
  /\ gw[p].pc = "in_create"
  /\ LET loc == gw[p].target.location_id
         r == Called(gw[p], "contactCreate", loc, gw[p].phone)
     IN \E ok \in BOOLEAN :
          IF ok THEN
            /\ crmContacts' = crmContacts \cup {<<loc, gw[p].phone>>}
            /\ gw' = [gw EXCEPT ![p] =
                        [r EXCEPT !.pc = "in_convsearch",
                                  !.dup = <<loc, gw[p].phone>> \in crmContacts]]
          ELSE
            /\ gw' = [gw EXCEPT ![p] = ObFail(r, "createfailed")]
            /\ UNCHANGED crmContacts
  /\ UNCHANGED <<installations, now, recentProcessedMessages, timers, delivered,
                 crmConversations, tokenVars, ghlVars>>

\* findOrCreateGHLContact: GET /conversations/search/ with the id of the
\* contact
InConversationSearch(p) ==
  /\ gw[p].pc = "in_convsearch"
  /\ LET loc == gw[p].target.location_id
         r == Called(gw[p], "conversationSearch", loc, gw[p].phone)
     IN \E ok \in BOOLEAN :
          gw' = [gw EXCEPT ![p] =
                   IF ~ok THEN ObFail(r, "searchfailed")
                   ELSE IF ~gw[p].dup /\ <<loc, gw[p].phone>> \in crmConversations
                        THEN [r EXCEPT !.pc = "in_post"]
                        ELSE [r EXCEPT !.pc = "in_convcreate"]]
  /\ UNCHANGED <<installations, now, recentProcessedMessages, timers, delivered,
                 crmContacts, crmConversations, tokenVars, ghlVars>>

\* findOrCreateGHLContact: POST /conversations/
InConversationCreate(p) ==
  /\ gw[p].pc = "in_convcreate"
  /\ LET loc == gw[p].target.location_id
         r == Called(gw[p], "conversationCreate", loc, gw[p].phone)
     IN \E ok \in BOOLEAN :
          IF ok THEN
            /\ crmConversations' =
                 IF gw[p].dup THEN crmConversations
                 ELSE crmConversations \cup {<<loc, gw[p].phone>>}
            /\ gw' = [gw EXCEPT ![p] = [r EXCEPT !.pc = "in_post"]]
          ELSE
            /\ gw' = [gw EXCEPT ![p] = ObFail(r, "createfailed")]
            /\ UNCHANGED crmConversations
  /\ UNCHANGED <<installations, now, recentProcessedMessages, timers, delivered,
                 crmContacts, tokenVars, ghlVars>>

\* postMessageToGHL: POST /conversations/messages/inbound
InMessagePost(p) ==
  /\ gw[p].pc = "in_post"
  /\ LET r == Posted(gw[p], "messagePostInbound", gw[p].target.location_id,
                     gw[p].phone)
     IN \E ok \in BOOLEAN :
          gw' = [gw EXCEPT ![p] =
                   IF ok THEN [r EXCEPT !.pc = "in_sync"]
                   ELSE ObFail(r, "postfailed")]
  /\ UNCHANGED <<installations, now, recentProcessedMessages, timers, delivered,
                 crmContacts, crmConversations, tokenVars, ghlVars>>

\* await this.model.updateLastSyncTime(resourceId), whose query may fail and
\* then throws into the catch of processIncomingMessage
InSync(p) ==
  /\ gw[p].pc = "in_sync"
  /\ \E stored \in BOOLEAN :
       IF stored THEN
         /\ installations' =
              [installations EXCEPT ![gw[p].target.location_id] =
                 UpdateLastSyncTime(@, now)]
         /\ gw' = [gw EXCEPT ![p] = Answered(@, 200, "relayed")]
       ELSE
         /\ gw' = [gw EXCEPT ![p] = ObFail(@, "syncfailed")]
         /\ UNCHANGED installations
  /\ UNCHANGED <<now, recentProcessedMessages, timers, delivered,
                 crmContacts, crmConversations, tokenVars, ghlVars>>

InStep(p) ==
  \/ InLookup(p)
  \/ InInfo(p)
  \/ InContactSearch(p)
  \/ InContactCreate(p)
  \/ InConversationSearch(p)
  \/ InConversationCreate(p)
  \/ InMessagePost(p)
  \/ InSync(p)

(***************************************************************************)
(* model.ts: tokens of an installation                                     *)
(***************************************************************************)
\* Model.getInstallationInfo: SELECT * FROM installations WHERE
\* location_id = $1 OR company_id = $1; no row gives undefined
GetInstallationInfo(resourceId) ==
  IF resourceId \in LocIds THEN installations[resourceId] ELSE NoRow

\* expiresAt > new Date(), with expiresAt = updated_at + expires_in * 1000
TokenValid(row, t) == row.updated_at + row.expires_in * MS_PER_S > t

\* Model.getAccessToken: the stored token while it is valid, else undefined
GetAccessToken_Inverted(loc, t) ==
  IF GetInstallationInfo(loc) # NoRow /\ ~TokenValid(GetInstallationInfo(loc), t)
  THEN GetInstallationInfo(loc).access_token
  ELSE Absent
GetAccessToken(loc, t) ==
  IF GetInstallationInfo(loc) # NoRow /\ TokenValid(GetInstallationInfo(loc), t)
  THEN GetInstallationInfo(loc).access_token
  ELSE Absent

\* Model.getRefreshToken: result.rows[0]?.refresh_token
GetRefreshToken(loc) ==
  IF GetInstallationInfo(loc) = NoRow THEN Absent
  ELSE GetInstallationInfo(loc).refresh_token

\* Model.saveInstallationInfo of the response of the token endpoint: the row
\* after INSERT ... ON CONFLICT (location_id) DO UPDATE at time t
SaveInstallationInfo(row, loc, grant, t) ==
  IF row = NoRow
  THEN [location_id |-> loc,
        access_token |-> grant.access_token,
        refresh_token |-> grant.refresh_token,
        expires_in |-> grant.expires_in,
        updated_at |-> t,
        last_sync_at |-> t,
        integration_status |-> "active",
        evolution_instance_name |-> Absent,
        conversation_provider_id |-> Absent,
        client_id |-> Absent,
        client_secret |-> Absent]
  ELSE [row EXCEPT !.access_token = grant.access_token,
                   !.refresh_token = grant.refresh_token,
                   !.expires_in = grant.expires_in,
                   !.updated_at = t,
                   !.last_sync_at = t,
                   !.integration_status = "active"]

\* Model.updateIntegrationStatus: UPDATE ... SET integration_status = $1,
\* updated_at = NOW()
UpdateIntegrationStatus_Keep(row, status, t) ==
  IF row = NoRow THEN row ELSE [row EXCEPT !.updated_at = t]
UpdateIntegrationStatus(row, status, t) ==
  IF row = NoRow THEN row
  ELSE [row EXCEPT !.integration_status = status, !.updated_at = t]

(***************************************************************************)
(* The CRM: its API and its token endpoint                                 *)
(***************************************************************************)
\* the n-th token pair the token endpoint issues
AccessTokens == <<"at1", "at2", "at3", "at4", "at5">>
RefreshTokens == <<"rt1", "rt2", "rt3", "rt4", "rt5">>
Nth(tokens, n) == IF n <= Len(tokens) THEN tokens[n] ELSE tokens[Len(tokens)]

\* the CRM accepts the access tokens it has issued, until they expire
CrmAccepts(token, t) ==
  /\ token \in DOMAIN idp.accepted
  /\ t < idp.accepted[token]

\* the status of the response to a request that carries the token: success
\* needs an accepted token; the CRM may refuse a token for its scope (401) and
\* may fail (500)
CrmResponse(token, t) == IF CrmAccepts(token, t) THEN {200, 401, 500} ELSE {401}

\* the token pair the n-th successful exchange returns
Grant(n) ==
  [access_token |-> Nth(AccessTokens, n),
   refresh_token |-> Nth(RefreshTokens, n),
   expires_in |-> TokenLifeS]

(***************************************************************************)
(* ghl.ts: GHL.requests and GHL.refreshAccessToken                         *)
(***************************************************************************)
\* a request made through requests(resourceId), after its request interceptor:
\* the Authorization token it carries (Absent for "Bearer undefined")
CrmRequest(loc, token) ==
  [pc |-> "sent", loc |-> loc, at |-> now, via |-> "instance", retry |-> FALSE,
   auth |-> token, status |-> 0, result |-> "", refreshes |-> 0,
   resubmits |-> 0, sentRt |-> Absent, grant |-> 0, probeAuth |-> Absent,
   probe |-> 0]

\* axiosInstance.interceptors.request.use: the Authorization header is set
\* from getAccessToken, and the request is sent
RqStart(c, loc) ==
  /\ rq[c].pc \in {"idle", "done"}
  /\ started < MaxRequests
  /\ started' = started + 1
  /\ rq' = [rq EXCEPT ![c] = CrmRequest(loc, GetAccessToken(loc, now))]
  /\ UNCHANGED <<installations, now, gwVars, ghlVars, idp>>

\* error.response.status === 401 && !originalRequest._retry, for a response
\* that passes through the response interceptor of the instance
ShouldRefresh_Always(r, status) == status = 401
ShouldRefresh(r, status) ==
  /\ r.via = "instance"
  /\ status = 401
  /\ ~r.retry

\* The response to the request arrives.  Through the response interceptor, a
\* first 401 marks the request as retried and starts refreshAccessToken;
\* every other response goes to the caller.
RqResponse(c) ==
  /\ rq[c].pc = "sent"
  /\ \E status \in CrmResponse(rq[c].auth, now) :
       rq' = [rq EXCEPT ![c] =
                IF ShouldRefresh(rq[c], status)
                THEN [@ EXCEPT !.pc = "rf_read", !.status = status,
                               !.retry = TRUE, !.refreshes = @ + 1]
                ELSE [@ EXCEPT !.pc = "done", !.status = status,
                               !.result = IF status = 200 THEN "ok"
                                          ELSE "rejected"]]
  /\ UNCHANGED <<installations, now, gwVars, ghlVars, idp, started>>

\* refresh_token: await this.model.getRefreshToken(resourceId)
RfReadToken(c) ==
  /\ rq[c].pc = "rf_read"
  /\ rq' = [rq EXCEPT ![c].pc = "rf_post",
                      ![c].sentRt = GetRefreshToken(rq[c].loc)]
  /\ UNCHANGED <<installations, now, gwVars, ghlVars, idp, started>>

\* catch (error) { ...; throw error } of refreshAccessToken when axios.post
\* to the token endpoint rejects: the request of the caller is rejected
ExchangeFailed_Probe(r) == [r EXCEPT !.pc = "rf_probe_read"]
ExchangeFailed(r) == [r EXCEPT !.pc = "done", !.result = "refreshfailed"]

\* POST /oauth/token with grant_type refresh_token: the CRM exchanges its
\* current refresh token for a new pair and retires it; any other refresh
\* token is refused, and the exchange may fail.  A failure is thrown to the
\* caller of the request.
RfExchange(c) ==
  /\ rq[c].pc = "rf_post"
  /\ \/ /\ rq[c].sentRt # Absent
        /\ rq[c].sentRt = idp.refresh
        /\ LET n == idp.issued + 1
           IN /\ idp' = [idp EXCEPT
                           !.accepted =
                              @ @@ (Grant(n).access_token :>
                                      now + Grant(n).expires_in * MS_PER_S),
                           !.refresh = Grant(n).refresh_token,
                           !.issued = n]
              /\ rq' = [rq EXCEPT ![c].pc = "rf_save", ![c].grant = n]
     \/ /\ rq' = [rq EXCEPT ![c] = ExchangeFailed(@)]
        /\ UNCHANGED idp
  /\ UNCHANGED <<installations, now, gwVars, ghlVars, started>>

\* await this.model.saveInstallationInfo({...resp.data, locationId, updatedAt})
RfSave(c) ==
  /\ rq[c].pc = "rf_save"
  /\ installations' =
       [installations EXCEPT ![rq[c].loc] =
          SaveInstallationInfo(@, rq[c].loc, Grant(rq[c].grant), now)]
  /\ rq' = [rq EXCEPT ![c].pc = "rf_probe_read"]
  /\ UNCHANGED <<now, gwVars, ghlVars, idp, started>>

\* const accessToken = await this.model.getAccessToken(resourceId)
RfProbeRead(c) ==
  /\ rq[c].pc = "rf_probe_read"
  /\ rq' = [rq EXCEPT ![c].pc = "rf_probe",
                      ![c].probeAuth = GetAccessToken(rq[c].loc, now)]
  /\ UNCHANGED <<installations, now, gwVars, ghlVars, idp, started>>

\* GET /users/me with the token read: a 401 leads to updateIntegrationStatus,
\* any other failure is thrown as it is
RfProbe(c) ==
  /\ rq[c].pc = "rf_probe"
  /\ \E status \in CrmResponse(rq[c].probeAuth, now) :
       rq' = [rq EXCEPT ![c] =
                IF status = 200 THEN [@ EXCEPT !.pc = "rq_reauth", !.probe = status]
                ELSE IF status = 401
                     THEN [@ EXCEPT !.pc = "rf_mark", !.probe = status]
                     ELSE [@ EXCEPT !.pc = "done", !.probe = status,
                                    !.result = "refreshfailed"]]
  /\ UNCHANGED <<installations, now, gwVars, ghlVars, idp, started>>

\* await this.model.updateIntegrationStatus(resourceId, Error), then
\* throw new Error("Token renovado nao tem permissoes suficientes ...")
RfMarkError(c) ==
  /\ rq[c].pc = "rf_mark"
  /\ installations' =
       [installations EXCEPT ![rq[c].loc] =
          UpdateIntegrationStatus(@, "error", now)]
  /\ rq' = [rq EXCEPT ![c].pc = "done", ![c].result = "autherror"]
  /\ UNCHANGED <<now, gwVars, ghlVars, idp, started>>

\* originalRequest.headers.Authorization = `Bearer ${await getAccessToken}`;
\* return axios(originalRequest): resubmitted through the global axios
RqResubmit(c) ==
  /\ rq[c].pc = "rq_reauth"
  /\ rq' = [rq EXCEPT ![c].pc = "sent", ![c].via = "axios",
                      ![c].auth = GetAccessToken(rq[c].loc, now),
                      ![c].resubmits = @ + 1]
  /\ UNCHANGED <<installations, now, gwVars, ghlVars, idp, started>>

RqStep(c) ==
  \/ RqResponse(c)
  \/ RfReadToken(c)
  \/ RfExchange(c)
  \/ RfSave(c)
  \/ RfProbeRead(c)
  \/ RfProbe(c)
  \/ RfMarkError(c)
  \/ RqResubmit(c)

(***************************************************************************)
(* Texts: strings as sequences of characters                               *)
(***************************************************************************)
UpperCase == <<"A", "B", "C", "D", "E", "F", "G", "H", "I", "J", "K", "L", "M",
               "N", "O", "P", "Q", "R", "S", "T", "U", "V", "W", "X", "Y", "Z">>
LowerCase == <<"a", "b", "c", "d", "e", "f", "g", "h", "i", "j", "k", "l", "m",
               "n", "o", "p", "q", "r", "s", "t", "u", "v", "w", "x", "y", "z">>

\* String.prototype.toLowerCase
ToLowerCase(text) ==
  [i \in 1..Len(text) |->
     IF \E k \in 1..Len(UpperCase) : UpperCase[k] = text[i]
     THEN LowerCase[CHOOSE k \in 1..Len(UpperCase) : UpperCase[k] = text[i]]
     ELSE text[i]]

\* String.prototype.includes
Includes(text, part) ==
  \E i \in 0..(Len(text) - Len(part)) : SubSeq(text, i + 1, i + Len(part)) = part

\* a text field that the body does not carry
NoText == <<Absent>>
\* !text: a missing and an empty string are falsy
Falsy(text) == text = NoText \/ text = <<>>
\* text?.toLowerCase() || ""
LowerOrEmpty(text) == IF Falsy(text) THEN <<>> ELSE ToLowerCase(text)

\* the reserved markers "[sistema]", "[ghl]", "[integration]"
MarkerSistema == <<"[", "s", "i", "s", "t", "e", "m", "a", "]">>
MarkerGhl == <<"[", "g", "h", "l", "]">>
MarkerIntegration ==
  <<"[", "i", "n", "t", "e", "g", "r", "a", "t", "i", "o", "n", "]">>
\* the source words "webhook" and "api"
WordWebhook == <<"w", "e", "b", "h", "o", "o", "k">>
WordApi == <<"a", "p", "i">>

\* messageBody.includes("[sistema]") || ... "[ghl]" || ... "[integration]"
HasSystemMarker_CaseSensitive(message) ==
  \/ Includes(message, MarkerSistema)
  \/ Includes(message, MarkerGhl)
  \/ Includes(message, MarkerIntegration)
HasSystemMarker(message) ==
  \/ Includes(LowerOrEmpty(message), MarkerSistema)
  \/ Includes(LowerOrEmpty(message), MarkerGhl)
  \/ Includes(LowerOrEmpty(message), MarkerIntegration)

\* messageSource.includes("webhook") || messageSource.includes("api")
IsSuspectSource(source) ==
  \/ Includes(LowerOrEmpty(source), WordWebhook)
  \/ Includes(LowerOrEmpty(source), WordApi)

\* the message texts and the source strings of the events of a run
TextOi == <<"o", "i">>
TextSistema == <<"[", "S", "i", "s", "t", "e", "m", "a", "]", " ", "o", "k">>
TextGhl == <<"a", "[", "G", "H", "L", "]">>
TextIntegration ==
  <<"[", "i", "n", "t", "e", "g", "r", "a", "t", "i", "o", "n", "]", "!">>
SourceApp == <<"a", "p", "p">>
SourceApi == <<"A", "P", "I">>
SourceWebhook == <<"W", "e", "b", "h", "o", "o", "k", "s">>
SourceRapid == <<"r", "a", "p", "i", "d">>

(***************************************************************************)
(* The CRM: its contacts and conversations                                 *)
(***************************************************************************)
\* the contacts of the CRM: ct1 has a phone number, ct2 has none
ContactIds == {"ct1", "ct2"}
ContactPhone(contactId) == IF contactId = "ct1" THEN "+5511" ELSE Absent

\* data of the response to GET /contacts/{contactId}: the CRM either wraps the
\* contact in a contact property or returns it as the body
ContactBody(contactId, shape) ==
  IF shape = "wrapped"
  THEN [contact |-> [id |-> contactId, phone |-> ContactPhone(contactId)]]
  ELSE [id |-> contactId, phone |-> ContactPhone(contactId)]

\* obj.name of a JavaScript object: undefined when it has no such property
Field(obj, name) == IF name \in DOMAIN obj THEN obj[name] ELSE Absent

(***************************************************************************)
(* ghl.ts: EvolutionApiService.sendTextMessage                             *)
(***************************************************************************)
\* phoneNumber.replace('+', '') + '@s.whatsapp.net'
FormatNumber(phone) ==
  CASE phone = "+5511" -> J1
    [] phone = "+5522" -> J2
    [] OTHER -> phone

\* POST /message/sendText/{instanceName} with {number, text}
SendText(instance, phone, text) == <<instance, FormatNumber(phone), text>>

(***************************************************************************)
(* index.ts: POST /webhook/ghl and POST /send-message-evolution;           *)
(* ghl.ts: IntegrationService.sendMessageToWhatsApp                        *)
(***************************************************************************)
\* the handlers of a run
GhlHandlers == {"c1"}

\* sendMessageToWhatsApp(resourceId, contactId, message, messageId?)
SendMessageToWhatsApp(resourceId, contactId, message, messageId) ==
  [resourceId |-> resourceId, contactId |-> contactId, message |-> message,
   messageId |-> messageId]
NoCall == SendMessageToWhatsApp(Absent, Absent, NoText, Absent)

\* the call of POST /webhook/ghl:
\* sendMessageToWhatsApp(phoneNumber, message, locationId, req.body.messageId)
WebhookSend(phoneNumber, ev) ==
  SendMessageToWhatsApp(phoneNumber, ev.body, ev.locationId, ev.messageId)

\* the call of POST /send-message-evolution:
\* sendMessageToWhatsApp(locationId, contactId, message, messageId)
EndpointSend(ev) ==
  SendMessageToWhatsApp(ev.locationId, ev.contactId, ev.body, ev.messageId)

\* a request in its handler: the body, the phone number read from the CRM, the
\* arguments and the instance of sendMessageToWhatsApp, the phone number it
\* read, and the calls made to the send-API of the gateway
HookRequest(kind, ev) ==
  [pc |-> "done", kind |-> kind, ev |-> ev, status |-> 0, outcome |-> "",
   phone |-> Absent, sm |-> NoCall, instance |-> Absent, smPhone |-> Absent,
   sends |-> <<>>, statusPut |-> Absent]

\* GHLCredentialsValidator.validateGHLWebhook: the status it answers, 0 when
\* it calls next(); an UNINSTALL is let through without validation
ValidateGHLWebhook_NoExemption(ev) ==
  LET row == GetInstallationInfo(ev.locationId)
  IN IF ev.locationId = Absent THEN 400
     ELSE IF row = NoRow THEN 404
     ELSE IF row.client_id = Absent \/ row.client_secret = Absent THEN 401
     ELSE IF \/ row.client_id # GHL_APP_CLIENT_ID
             \/ row.client_secret # GHL_APP_CLIENT_SECRET THEN 401
     ELSE 0
ValidateGHLWebhook_NoCredentials(ev) ==
  LET row == GetInstallationInfo(ev.locationId)
  IN IF ev.type = "UNINSTALL" THEN 0
     ELSE IF ev.locationId = Absent THEN 400
     ELSE IF row = NoRow THEN 404
     ELSE 0
ValidateGHLWebhook(ev) ==
  LET row == GetInstallationInfo(ev.locationId)
  IN IF ev.type = "UNINSTALL" THEN 0
     ELSE IF ev.locationId = Absent THEN 400
     ELSE IF row = NoRow THEN 404
     ELSE IF row.client_id = Absent \/ row.client_secret = Absent THEN 401
     ELSE IF \/ row.client_id # GHL_APP_CLIENT_ID
             \/ row.client_secret # GHL_APP_CLIENT_SECRET THEN 401
     ELSE 0

\* the anti-loop checks and the check of the required fields of an
\* OutboundMessage, in the order of the handler
OutboundFilter_FieldsFirst(ev) ==
  IF \/ ev.conversationProviderId = Absent \/ ev.locationId = Absent
     \/ ev.contactId = Absent \/ Falsy(ev.body) THEN "incomplete"
  ELSE IF ev.direction = "inbound" THEN "inbound"
  ELSE IF HasSystemMarker(ev.body) THEN "marker"
  ELSE IF IsSuspectSource(ev.source) THEN "source"
  ELSE "pass"
OutboundFilter_NoDirection(ev) ==
  IF HasSystemMarker(ev.body) THEN "marker"
  ELSE IF IsSuspectSource(ev.source) THEN "source"
  ELSE IF \/ ev.conversationProviderId = Absent \/ ev.locationId = Absent
          \/ ev.contactId = Absent \/ Falsy(ev.body) THEN "incomplete"
  ELSE "pass"
OutboundFilter(ev) ==
  IF ev.direction = "inbound" THEN "inbound"
  ELSE IF HasSystemMarker(ev.body) THEN "marker"
  ELSE IF IsSuspectSource(ev.source) THEN "source"
  ELSE IF \/ ev.conversationProviderId = Absent \/ ev.locationId = Absent
          \/ ev.contactId = Absent \/ Falsy(ev.body) THEN "incomplete"
  ELSE "pass"

\* ghl.requests(resourceId) sends a request for handler c
Submit(c, resourceId) ==
  rq' = [rq EXCEPT ![c] = CrmRequest(resourceId, GetAccessToken(resourceId, now))]

\* the request of handler c has been answered
Settled(c) == rq[c].pc = "done"

\* POST /webhook/ghl with an OutboundMessage: validateGHLWebhook, then the
\* handler up to GET /contacts/{contactId}
GhlWebhook(c, ev) ==
  /\ req[c].pc \in {"idle", "done"}
  /\ received < MaxEvents
  /\ received' = received + 1
  /\ LET r == HookRequest("webhook", ev)
         refused == ValidateGHLWebhook(ev)
         filter == OutboundFilter(ev)
     IN IF refused # 0 THEN
          /\ req' = [req EXCEPT ![c] = Answered(r, refused, "refused")]
          /\ UNCHANGED rq
        ELSE IF filter = "incomplete" THEN
          /\ req' = [req EXCEPT ![c] = Answered(r, 400, filter)]
          /\ UNCHANGED rq
        ELSE IF filter # "pass" THEN
          /\ req' = [req EXCEPT ![c] = Answered(r, 200, filter)]
          /\ UNCHANGED rq
        ELSE
          /\ req' = [req EXCEPT ![c] = [r EXCEPT !.pc = "wh_contact"]]
          /\ Submit(c, ev.locationId)
  /\ UNCHANGED <<installations, now, gwVars, idp, started>>

\* return {success: false, ...} of sendMessageToWhatsApp, and the answer of
\* its caller: 500 from POST /webhook/ghl, 400 from the send endpoint
SmFailed(r, why) == Answered(r, IF r.kind = "webhook" THEN 500 ELSE 400, why)

\* const contact = contactResponse.data; const phoneNumber = contact.phone;
\* then GET /conversations/search/
WhContact(c) ==
  /\ req[c].pc = "wh_contact"
  /\ Settled(c)
  /\ LET phoneNumber ==
           Field(ContactBody(req[c].ev.contactId, idp.shape), "phone")
     IN IF rq[c].result # "ok" THEN
          /\ req' = [req EXCEPT ![c] = Answered(@, 500, "error")]
          /\ UNCHANGED rq
        ELSE IF phoneNumber = Absent THEN
          /\ req' = [req EXCEPT ![c] = Answered(@, 400, "nophone")]
          /\ UNCHANGED rq
        ELSE
          /\ req' = [req EXCEPT ![c].pc = "wh_conv", ![c].phone = phoneNumber]
          /\ Submit(c, req[c].ev.locationId)
  /\ UNCHANGED <<installations, now, gwVars, idp, started, received>>

\* the conversations found: a conversation whose id differs from the
\* conversationProviderId of the event is saved as the provider id
WhConversation(c) ==
  /\ req[c].pc = "wh_conv"
  /\ Settled(c)
  /\ IF rq[c].result # "ok" THEN
       /\ req' = [req EXCEPT ![c] = Answered(@, 500, "error")]
       /\ UNCHANGED installations
     ELSE \E conversation \in {Absent, "cv1"} :
       /\ req' = [req EXCEPT ![c].pc = "wh_info"]
       /\ IF /\ conversation # Absent
             /\ conversation # req[c].ev.conversationProviderId
             /\ GetInstallationInfo(req[c].ev.locationId) # NoRow
          THEN installations' =
                 [installations EXCEPT ![req[c].ev.locationId] =
                    UpdateConversationProviderId(@, conversation, now)]
          ELSE UNCHANGED installations
  /\ UNCHANGED <<now, gwVars, tokenVars, received>>

\* getInstallationInfo(locationId), then the call of sendMessageToWhatsApp
\* on a service whose default instance is the one of the installation
WhSend(c) ==
  /\ req[c].pc = "wh_info"
  /\ LET row == GetInstallationInfo(req[c].ev.locationId)
     IN IF row = NoRow
        THEN req' = [req EXCEPT ![c] = Answered(@, 404, "notinstalled")]
        ELSE req' = [req EXCEPT
                       ![c].pc = "sm_info",
                       ![c].sm = WebhookSend(req[c].phone, req[c].ev),
                       ![c].instance =
                          IF row.evolution_instance_name = Absent
                          THEN "default" ELSE row.evolution_instance_name]
  /\ UNCHANGED <<installations, now, gwVars, tokenVars, received>>

\* POST /send-message-evolution: validateInstallationExists, the required
\* fields, getInstallationInfo, then the call of sendMessageToWhatsApp
SendEndpoint(c, ev) ==
  /\ req[c].pc \in {"idle", "done"}
  /\ received < MaxEvents
  /\ received' = received + 1
  /\ LET r == HookRequest("send", ev)
         row == GetInstallationInfo(ev.locationId)
     IN IF ev.locationId = Absent THEN
          req' = [req EXCEPT ![c] = Answered(r, 400, "refused")]
        ELSE IF row = NoRow THEN
          req' = [req EXCEPT ![c] = Answered(r, 404, "refused")]
        ELSE IF ev.contactId = Absent \/ Falsy(ev.body) THEN
          req' = [req EXCEPT ![c] = Answered(r, 400, "incomplete")]
        ELSE
          req' = [req EXCEPT ![c] =
                    [r EXCEPT !.pc = "sm_info", !.sm = EndpointSend(ev),
                              !.instance =
                                 IF row.evolution_instance_name = Absent
                                 THEN "default" ELSE row.evolution_instance_name]]
  /\ UNCHANGED <<installations, now, gwVars, tokenVars>>

\* sendMessageToWhatsApp: getInstallationInfo(resourceId), then
\* getGHLContactInfo(resourceId, contactId)
SmInfo(c) ==
  /\ req[c].pc = "sm_info"
  /\ LET row == GetInstallationInfo(req[c].sm.resourceId)
     IN IF row = NoRow THEN
          /\ req' = [req EXCEPT ![c] = SmFailed(@, "INSTALLATION_NOT_FOUND")]
          /\ UNCHANGED rq
        ELSE
          /\ req' = [req EXCEPT
                       ![c].pc = "sm_contact",
                       ![c].instance =
                          IF row.evolution_instance_name = Absent
                          THEN @ ELSE row.evolution_instance_name]
          /\ Submit(c, req[c].sm.resourceId)
  /\ UNCHANGED <<installations, now, gwVars, idp, started, received>>

\* getGHLContactInfo: data: response.data.contact; a failed request and a
\* body without contact end the send
SmContact(c) ==
  /\ req[c].pc = "sm_contact"
  /\ Settled(c)
  /\ LET body == ContactBody(req[c].sm.contactId, idp.shape)
     IN IF rq[c].result # "ok" THEN
          req' = [req EXCEPT ![c] = SmFailed(@, "contact")]
        ELSE IF "contact" \notin DOMAIN body THEN
          req' = [req EXCEPT ![c] = SmFailed(@, "TypeError")]
        ELSE
          req' = [req EXCEPT ![c].pc = "sm_send",
                             ![c].smPhone = body.contact.phone]
  /\ UNCHANGED <<installations, now, gwVars, tokenVars, received>>

\* evolutionService.sendTextMessage(contactInfo.data.phone, message); on
\* success the status of the source message is put to "delivered"
SmSend(c) ==
  /\ req[c].pc = "sm_send"
  /\ IF req[c].smPhone = Absent THEN
       /\ req' = [req EXCEPT ![c] = SmFailed(@, "send")]
       /\ UNCHANGED rq
     ELSE \E accepted \in BOOLEAN :
       LET sent == [req[c] EXCEPT !.sends =
                      Append(@, SendText(req[c].instance, req[c].smPhone,
                                         req[c].sm.message))]
       IN IF ~accepted THEN
            /\ req' = [req EXCEPT ![c] = SmFailed(sent, "send")]
            /\ UNCHANGED rq
          ELSE IF req[c].sm.messageId # Absent THEN
            /\ req' = [req EXCEPT ![c] = [sent EXCEPT !.pc = "sm_status"]]
            /\ Submit(c, req[c].sm.resourceId)
          ELSE
            /\ req' = [req EXCEPT ![c] = [sent EXCEPT !.pc = "sm_sync"]]
            /\ UNCHANGED rq
  /\ UNCHANGED <<installations, now, gwVars, idp, started, received>>

\* try { await ...put(status) } catch (statusError) { console.error(...) }:
\* the send goes on whatever the result of the status update is
StatusUpdated_Thrown(r, result) ==
  IF result = "ok"
  THEN [r EXCEPT !.pc = "sm_sync", !.statusPut = "ok"]
  ELSE SmFailed([r EXCEPT !.statusPut = "failed"], "status")
StatusUpdated(r, result) ==
  [r EXCEPT !.pc = "sm_sync",
            !.statusPut = IF result = "ok" THEN "ok" ELSE "failed"]

\* the status update has ended, with success or not
SmStatus(c) ==
  /\ req[c].pc = "sm_status"
  /\ Settled(c)
  /\ req' = [req EXCEPT ![c] = StatusUpdated(@, rq[c].result)]
  /\ UNCHANGED <<installations, now, gwVars, tokenVars, received>>

\* await this.model.updateLastSyncTime(resourceId), whose query may fail and
\* then throws into the catch of sendMessageToWhatsApp; else return
\* {success: true}, and POST /webhook/ghl then puts the status of
\* req.body.messageId to "delivered"
SmSync(c) ==
  /\ req[c].pc = "sm_sync"
  /\ \E stored \in BOOLEAN :
       IF ~stored THEN
         /\ req' = [req EXCEPT ![c] = SmFailed(@, "syncfailed")]
         /\ UNCHANGED <<installations, rq>>
       ELSE
         /\ installations' =
              [installations EXCEPT ![req[c].sm.resourceId] =
                 UpdateLastSyncTime(@, now)]
         /\ IF req[c].kind = "webhook" /\ req[c].ev.messageId # Absent THEN
              /\ req' = [req EXCEPT ![c].pc = "wh_status"]
              /\ Submit(c, req[c].ev.locationId)
            ELSE
              /\ req' = [req EXCEPT ![c] = Answered(@, 200, "sent")]
              /\ UNCHANGED rq
  /\ UNCHANGED <<now, gwVars, idp, started, received>>

\* The status update of the handler has ended, with success or not.  No run
\* enables this step: the call of WhSend never gives success, because no
\* installation has a phone number as its id.
WhStatus(c) ==
  /\ req[c].pc = "wh_status"
  /\ Settled(c)
  /\ req' = [req EXCEPT ![c] = Answered(@, 200, "sent")]
  /\ UNCHANGED <<installations, now, gwVars, tokenVars, received>>

(***************************************************************************)
(* index.ts: POST /webhook/ghl, the events that are no OutboundMessage     *)
(***************************************************************************)
\* company_id of the row of a subaccount, which the authorization stores
\* from the companyId of the token response: both subaccounts are of one
\* company
CompanyOf(l) == "C1"

\* the id an UNINSTALL removes: locationId, else companyId
UninstallId(ev) ==
  IF ev.locationId # Absent THEN ev.locationId ELSE ev.companyId

\* Model.deleteInstallationInfo: DELETE FROM installations WHERE
\* location_id = $1 OR company_id = $1
DeleteInstallationInfo(store, resourceId) ==
  [l \in LocIds |->
     IF l = resourceId \/ (store[l] # NoRow /\ CompanyOf(l) = resourceId)
     THEN NoRow ELSE store[l]]

\* Model.checkInstallationExists: SELECT 1 FROM installations WHERE
\* location_id = $1 OR company_id = $1 LIMIT 1
CheckInstallationExists(resourceId) ==
  \E l \in LocIds :
    /\ installations[l] # NoRow
    /\ l = resourceId \/ CompanyOf(l) = resourceId

\* POST /webhook/ghl with an UNINSTALL: validateGHLWebhook, then the handler
\* up to checkInstallationExists
GhlUninstall(c, ev) ==
  /\ req[c].pc \in {"idle", "done"}
  /\ received < MaxHooks
  /\ received' = received + 1
  /\ LET r == HookRequest("uninstall", ev)
         refused == ValidateGHLWebhook(ev)
     IN req' = [req EXCEPT ![c] =
                  IF refused # 0 THEN Answered(r, refused, "refused")
                  ELSE IF UninstallId(ev) = Absent
                       THEN Answered(r, 200, "noid")
                       ELSE [r EXCEPT !.pc = "un_check"]]
  /\ UNCHANGED <<installations, now, gwVars, tokenVars>>

\* checkInstallationExists(id): an installation that is gone is not deleted
UnCheck(c) ==
  /\ req[c].pc = "un_check"
  /\ req' = [req EXCEPT ![c] =
               IF ~CheckInstallationExists(UninstallId(req[c].ev))
               THEN Answered(@, 200, "gone")
               ELSE [@ EXCEPT !.pc = "un_delete"]]
  /\ UNCHANGED <<installations, now, gwVars, tokenVars, received>>

\* deleteInstallationInfo(id), then res.status(200)
UnDelete(c) ==
  /\ req[c].pc = "un_delete"
  /\ installations' =
       DeleteInstallationInfo(installations, UninstallId(req[c].ev))
  /\ req' = [req EXCEPT ![c] = Answered(@, 200, "removed")]
  /\ UNCHANGED <<now, gwVars, tokenVars, received>>

\* POST /webhook/ghl with an event whose type is not UNINSTALL, INSTALL or
\* OutboundMessage: validateGHLWebhook, then the last else of the handler,
\* which logs the type and ends without a call of res
GhlUnhandled(c, ev) ==
  /\ req[c].pc \in {"idle", "done"}
  /\ received < MaxHooks
  /\ received' = received + 1
  /\ LET r == HookRequest("unhandled", ev)
         refused == ValidateGHLWebhook(ev)
     IN req' = [req EXCEPT ![c] =
                  IF refused # 0 THEN Answered(r, refused, "refused")
                  ELSE [r EXCEPT !.pc = "noresponse"]]
  /\ UNCHANGED <<installations, now, gwVars, tokenVars>>

\* the client of a request that got no response gives up
GhlAbandon(c) ==
  /\ req[c].pc = "noresponse"
  /\ req' = [req EXCEPT ![c] = Answered(@, 0, "noresponse")]
  /\ UNCHANGED <<installations, now, gwVars, tokenVars, received>>

GhlStep(c) ==
  \/ WhContact(c)
  \/ WhConversation(c)
  \/ WhSend(c)
  \/ SmInfo(c)
  \/ SmContact(c)
  \/ SmSend(c)
  \/ SmStatus(c)
  \/ SmSync(c)

(***************************************************************************)
(* index.ts: POST /webhook/ghl, INSTALL;                                   *)
(* ghl.ts: IntegrationService.setupIntegration                             *)
(***************************************************************************)
\* baseIntegrationConfig.defaultInstanceName
DefaultInstanceName == "default"

\* response.data.state of GET /instance/connectionState/{instanceName};
\* Absent when the request fails
InstanceStates == {"open", "connecting", "close", Absent}

\* validStates.includes(response.data.state); a failed request gives false
IsValidState(state) == state \in {"open", "connecting", "connected"}

\* the instance name the INSTALL branch hands to setupIntegration
InstallInstanceName_Default(row) == DefaultInstanceName
InstallInstanceName(row) ==
  IF row # NoRow /\ row.evolution_instance_name # Absent
  THEN row.evolution_instance_name
  ELSE DefaultInstanceName

\* an INSTALL event in the handler: the installation that setupIntegration
\* has read, the calls made to the gateway, and whether the gateway has
\* reported the instance as connected
InstallRequest(ev) ==
  HookRequest("install", ev)
    @@ [snapshot |-> NoRow, calls |-> <<>>, connected |-> FALSE]

\* POST /webhook/ghl with an INSTALL: validateGHLWebhook, then the handler up
\* to getInstallationInfo(locationId)
GhlInstall(c, ev) ==
  /\ req[c].pc \in {"idle", "done"}
  /\ received < MaxHooks
  /\ received' = received + 1
  /\ LET r == InstallRequest(ev)
         refused == ValidateGHLWebhook(ev)
     IN req' = [req EXCEPT ![c] =
                  IF refused # 0 THEN Answered(r, refused, "refused")
                  ELSE IF ev.locationId = Absent
                       THEN [r EXCEPT !.pc = "noresponse"]
                       ELSE [r EXCEPT !.pc = "is_info"]]
  /\ UNCHANGED <<installations, now, gwVars, tokenVars>>

\* installationDetails?.evolutionInstanceName, or the default name; then
\* setupIntegration(locationId, instanceName) up to its getInstallationInfo
IsInfo(c) ==
  /\ req[c].pc = "is_info"
  /\ req' = [req EXCEPT
               ![c].pc = "su_info",
               ![c].instance =
                  InstallInstanceName(GetInstallationInfo(req[c].ev.locationId))]
  /\ UNCHANGED <<installations, now, gwVars, tokenVars, received>>

\* const installation = await this.model.getInstallationInfo(resourceId);
\* without one setupIntegration returns INSTALLATION_NOT_FOUND
SuInfo(c) ==
  /\ req[c].pc = "su_info"
  /\ LET row == GetInstallationInfo(req[c].ev.locationId)
     IN req' = [req EXCEPT ![c] =
                  IF row = NoRow
                  THEN [@ EXCEPT !.pc = "noresponse",
                                 !.outcome = "INSTALLATION_NOT_FOUND"]
                  ELSE [@ EXCEPT !.pc = "su_save", !.snapshot = row]]
  /\ UNCHANGED <<installations, now, gwVars, tokenVars, received>>

\* saveInstallationInfo({...installation, evolutionInstanceName,
\* integrationStatus: Pending}): the row after the upsert at time t
SaveSetup(row, installation, instanceName, t) ==
  [location_id |-> installation.location_id,
   access_token |-> installation.access_token,
   refresh_token |-> installation.refresh_token,
   expires_in |-> installation.expires_in,
   updated_at |-> t,
   last_sync_at |-> installation.last_sync_at,
   integration_status |-> "pending",
   evolution_instance_name |-> instanceName,
   conversation_provider_id |->
     IF installation.conversation_provider_id # Absent \/ row = NoRow
     THEN installation.conversation_provider_id
     ELSE row.conversation_provider_id,
   client_id |->
     IF installation.client_id # Absent \/ row = NoRow
     THEN installation.client_id ELSE row.client_id,
   client_secret |->
     IF installation.client_secret # Absent \/ row = NoRow
     THEN installation.client_secret ELSE row.client_secret]

\* const instanceName = evolutionInstanceName || this.config.defaultInstanceName;
\* await this.model.saveInstallationInfo(...)
SuSave(c) ==
  /\ req[c].pc = "su_save"
  /\ installations' =
       [installations EXCEPT ![req[c].ev.locationId] =
          SaveSetup(@, req[c].snapshot, req[c].instance, now)]
  /\ req' = [req EXCEPT ![c].pc = "su_state"]
  /\ UNCHANGED <<now, gwVars, tokenVars, received>>

\* const isConnected = await evolutionService.checkInstanceStatus()
SuState(c) ==
  /\ req[c].pc = "su_state"
  /\ \E state \in InstanceStates :
       req' = [req EXCEPT
                 ![c].calls = Append(@, <<"connectionState", req[c].instance>>),
                 ![c].connected = IsValidState(state),
                 ![c].pc = IF IsValidState(state) THEN "su_active"
                           ELSE "su_create"]
  /\ UNCHANGED <<installations, now, gwVars, tokenVars, received>>

\* const createResult = await evolutionService.createInstance()
SuCreate(c) ==
  /\ req[c].pc = "su_create"
  /\ \E ok \in BOOLEAN :
       req' = [req EXCEPT
                 ![c].calls = Append(@, <<"create", req[c].instance>>),
                 ![c].pc = IF ok THEN "su_active" ELSE "su_error"]
  /\ UNCHANGED <<installations, now, gwVars, tokenVars, received>>

\* await this.model.updateIntegrationStatus(resourceId, Active); setupIntegration
\* returns success and the handler ends without a call of res
SuActive(c) ==
  /\ req[c].pc = "su_active"
  /\ installations' =
       [installations EXCEPT ![req[c].ev.locationId] =
          UpdateIntegrationStatus(@, "active", now)]
  /\ req' = [req EXCEPT ![c].pc = "noresponse", ![c].outcome = "configured"]
  /\ UNCHANGED <<now, gwVars, tokenVars, received>>

\* await this.model.updateIntegrationStatus(resourceId, Error); setupIntegration
\* returns the failure and the handler ends without a call of res
SuError(c) ==
  /\ req[c].pc = "su_error"
  /\ installations' =
       [installations EXCEPT ![req[c].ev.locationId] =
          UpdateIntegrationStatus(@, "error", now)]
  /\ req' = [req EXCEPT ![c].pc = "noresponse", ![c].outcome = "createfailed"]
  /\ UNCHANGED <<now, gwVars, tokenVars, received>>

InstallStep(c) ==
  \/ IsInfo(c)
  \/ SuInfo(c)
  \/ SuSave(c)
  \/ SuState(c)
  \/ SuCreate(c)
  \/ SuActive(c)
  \/ SuError(c)
  \/ GhlAbandon(c)

(***************************************************************************)
(* The gateway webhook with its dedup cache                                *)
(***************************************************************************)
\* a messages.upsert event of instance i1 sent at the start of the run
UpsertEvent(fromMe, id, jid, part) ==
  [event |-> "messages.upsert", shape |-> "ok", fromMe |-> fromMe,
   id |-> id, jid |-> jid, part |-> part, ts |-> T1,
   message |-> [variant |-> "conversation", text |-> "hello"],
   instance |-> "i1"]

\* fromMe=true events: two messages of a group chat (participant present), a
\* message of a direct chat (no participant) and one without any address
FromMeEvents ==
  {UpsertEvent(TRUE, "m1", J1, J2), UpsertEvent(TRUE, "m2", J1, J2),
   UpsertEvent(TRUE, "m1", J1, Absent), UpsertEvent(TRUE, "m1", Absent, Absent)}

\* location L1 is installed for instance i1, location L2 is not installed
InstalledL1 ==
  [l \in LocIds |-> IF l = "L1" THEN Row("L1", "i1", "cp1", "at0") ELSE NoRow]

InitDedup ==
  /\ installations = InstalledL1
  /\ now = StartMs
  /\ recentProcessedMessages = <<>>
  /\ timers = {}
  /\ gw = [p \in Deliveries |-> Idle]
  /\ delivered = 0
  /\ crmContacts = {}
  /\ crmConversations = {}
  /\ idp = NoTokens
  /\ rq = [c \in Callers |-> Idle]
  /\ started = 0
  /\ req = [c \in Callers |-> Idle]
  /\ received = 0

NextDedup ==
  \/ \E p \in Deliveries, ev \in FromMeEvents : GwReceive(p, ev)
  \/ \E p \in Deliveries : ObStep(p)
  \/ \E t \in timers : EvictTimer(t)
  \/ \E t \in Instants : Tick(t)

SpecDedup == InitDedup /\ [][NextDedup]_vars

(***************************************************************************)
(* The CRM requests of an installed tenant with their token handling       *)
(***************************************************************************)
\* the token pair of the installation of L1 is the one the CRM has issued
InstallTokens ==
  [accepted |-> ("at0" :> ExpiryMs), refresh |-> "rt0", issued |-> 0,
   shape |-> "wrapped"]

InitToken ==
  /\ installations = InstalledL1
  /\ now = StartMs
  /\ recentProcessedMessages = <<>>
  /\ timers = {}
  /\ gw = [p \in Deliveries |-> Idle]
  /\ delivered = 0
  /\ crmContacts = {}
  /\ crmConversations = {}
  /\ idp = InstallTokens
  /\ rq = [c \in Callers |-> Idle]
  /\ started = 0
  /\ req = [c \in Callers |-> Idle]
  /\ received = 0

\* the instants of a run: its start, the expiry of the token of the
\* installation, and the expiry of a token issued at that time
TokenInstants == {StartMs, ExpiryMs, ExpiryMs + TokenLifeS * MS_PER_S}

NextToken ==
  \/ \E c \in Callers : RqStart(c, "L1")
  \/ \E c \in Callers : RqStep(c)
  \/ \E t \in TokenInstants : Tick(t)

SpecToken == InitToken /\ [][NextToken]_vars

(***************************************************************************)
(* The CRM webhook and the send endpoint                                   *)
(***************************************************************************)
\* the values of a field of a body
LocationIds == {"L1", "L2", Absent}
Bodies == {TextOi, TextSistema, TextGhl, TextIntegration, NoText}
Directions == {"inbound", "outbound"}
Sources == {SourceApp, SourceApi, SourceWebhook, SourceRapid, NoText}

\* req.body of an OutboundMessage
OutboundMessages ==
  [type : {"OutboundMessage"}, locationId : LocationIds,
   contactId : {"ct1", Absent}, body : Bodies, direction : Directions,
   source : Sources, conversationProviderId : {"cp1", Absent},
   messageId : {"mid1"}]

\* req.body of POST /send-message-evolution
SendBodies ==
  [type : {"send"}, locationId : LocationIds,
   contactId : ContactIds \cup {Absent}, body : {TextOi, NoText},
   messageId : {"mid1", Absent}]

\* L1 is installed; L2 is not installed, or its row has no credentials
StoresGhl ==
  {InstalledL1,
   [InstalledL1 EXCEPT !["L2"] =
      [Row("L2", "i2", "cp1", "at0") EXCEPT !.client_secret = Absent]]}

InitGhl ==
  /\ installations \in StoresGhl
  /\ now = StartMs
  /\ recentProcessedMessages = <<>>
  /\ timers = {}
  /\ gw = [p \in Deliveries |-> Idle]
  /\ delivered = 0
  /\ crmContacts = {}
  /\ crmConversations = {}
  /\ idp \in {[InstallTokens EXCEPT !.shape = sh] : sh \in {"wrapped", "plain"}}
  /\ rq = [c \in Callers |-> Idle]
  /\ started = 0
  /\ req = [c \in Callers |-> Idle]
  /\ received = 0

NextGhl ==
  \/ \E c \in GhlHandlers, ev \in OutboundMessages : GhlWebhook(c, ev)
  \/ \E c \in GhlHandlers, ev \in SendBodies : SendEndpoint(c, ev)
  \/ \E c \in GhlHandlers : GhlStep(c)
  \/ \E c \in GhlHandlers : RqStep(c)

SpecGhl == InitGhl /\ [][NextGhl]_vars

(***************************************************************************)
(* The gateway webhook with both of its relays                             *)
(***************************************************************************)
\* the events of the gateway: messages of the number of J1 received by the
\* instances i1 and i2, a message without sender, a message sent by the
\* company, and an event that is not a message
GatewayEvents ==
  {[UpsertEvent(FALSE, "m1", J1, Absent) EXCEPT !.instance = i] : i \in Instances}
  \cup {UpsertEvent(FALSE, "m1", Absent, Absent),
        UpsertEvent(TRUE, "m1", J1, Absent),
        [UpsertEvent(FALSE, "m1", J1, Absent) EXCEPT !.event = "connection.update"]}

\* L1 is installed for instance i1; L2 is not installed, or is installed for
\* instance i2
StoresGateway ==
  {InstalledL1, [InstalledL1 EXCEPT !["L2"] = Row("L2", "i2", "cp2", "at0")]}

InitGateway ==
  /\ installations \in StoresGateway
  /\ now = StartMs
  /\ recentProcessedMessages = <<>>
  /\ timers = {}
  /\ gw = [p \in Deliveries |-> Idle]
  /\ delivered = 0
  /\ crmContacts = {}
  /\ crmConversations = {}
  /\ idp = NoTokens
  /\ rq = [c \in Callers |-> Idle]
  /\ started = 0
  /\ req = [c \in Callers |-> Idle]
  /\ received = 0

NextGateway ==
  \/ \E p \in Deliveries, ev \in GatewayEvents : GwReceive(p, ev)
  \/ \E p \in Deliveries : ObStep(p)
  \/ \E p \in Deliveries : InStep(p)

SpecGateway == InitGateway /\ [][NextGateway]_vars

(***************************************************************************)
(* The CRM webhook with the events that are no OutboundMessage             *)
(***************************************************************************)
\* req.body of an UNINSTALL, and of an event of a type the handler does not
\* know
UninstallEvents ==
  [type : {"UNINSTALL"}, locationId : LocationIds, companyId : {"L1", Absent}]
UnhandledEvents ==
  [type : {"ContactCreate"}, locationId : LocationIds]

InitRouter == InitGhl

NextRouter ==
  \/ \E c \in Callers, ev \in UninstallEvents : GhlUninstall(c, ev)
  \/ \E c \in Callers, ev \in UnhandledEvents : GhlUnhandled(c, ev)
  \/ \E c \in Callers : UnCheck(c)
  \/ \E c \in Callers : UnDelete(c)
  \/ \E c \in Callers : GhlAbandon(c)

SpecRouter == InitRouter /\ [][NextRouter]_vars

(***************************************************************************)
(* The gateway webhook with the content variants of a message              *)
(***************************************************************************)
\* messageData.message: a text, an extended text with or without its text,
\* the media variants with and without a caption, and a variant the handler
\* does not know
Messages ==
  [variant : {"conversation"}, text : {"oi"}]
  \cup [variant : {"extendedTextMessage", "imageMessage", "audioMessage",
                   "videoMessage", "documentMessage", "stickerMessage"},
        text : {"oi", ""}]

\* messages of the number of J1, received and sent by the company
MediaEvents ==
  {[UpsertEvent(f, "m1", J1, Absent) EXCEPT !.message = m] :
     f \in BOOLEAN, m \in Messages}

\* the deliveries are handled one after the other
NextMedia ==
  \/ \E ev \in MediaEvents : GwReceive("d1", ev)
  \/ ObStep("d1")
  \/ InStep("d1")
  \/ \E t \in timers : EvictTimer(t)
  \/ \E t \in Instants : Tick(t)

SpecMedia == InitDedup /\ [][NextMedia]_vars

(***************************************************************************)
(* index.ts: GET /authorize-start and GET /authorize-handler;              *)
(* ghl.ts: GHL.authorizationHandler, generateAccessTokenRefreshTokenPair   *)
(***************************************************************************)
\* process.env.GHL_CONVERSATION_PROVIDER_ID
GHL_CONVERSATION_PROVIDER_ID == "cp1"

\* the authorization codes of the marketplace: of an installation in the
\* location L1 or L2, of an installation in a company (no locationId), and a
\* code the token endpoint refuses
Codes == {"code-L1", "code-L2", "code-company", "code-used"}
CodeLocation(code) ==
  CASE code = "code-L1" -> "L1"
    [] code = "code-L2" -> "L2"
    [] OTHER -> Absent

\* a request of the browser of a caller to one of the two routes
AuthRequest(kind, pc, code, cookie) ==
  [kind |-> kind, pc |-> pc, status |-> 0, outcome |-> "", code |-> code,
   cookie |-> cookie, instanceName |-> Absent, exchanges |-> 0, grant |-> 0,
   saved |-> FALSE]

\* the cookie tempInstanceName that the browser of caller c holds: the one
\* that its last request, an /authorize-start, has set
CookieOf(c) ==
  IF req[c].pc = "done" /\ req[c].kind = "start" /\ req[c].status = 302
  THEN req[c].cookie
  ELSE Absent

\* GET /authorize-start?instanceName=...: 400 without instanceName, else
\* the cookie tempInstanceName is set and the browser is sent to the CRM
AuStart(c, instanceName) ==
  /\ req[c].pc \in {"idle", "done"}
  /\ received < MaxHooks
  /\ received' = received + 1
  /\ req' = [req EXCEPT ![c] =
               IF instanceName = Absent
               THEN Answered(AuthRequest("start", "done", Absent, Absent),
                             400, "noinstance")
               ELSE Answered(AuthRequest("start", "done", Absent, instanceName),
                             302, "oauth")]
  /\ UNCHANGED <<installations, now, gwVars, tokenVars>>

\* const instanceName = req.cookies?.tempInstanceName || "default"
CallbackInstanceName(cookie) == IF cookie # Absent THEN cookie ELSE "default"

\* GET /authorize-handler?code=...: 400 without code; else the instance name
\* is taken from the cookie and authorizationHandler throws without one (the
\* handler answers 500) or starts the exchange of the code.  The cookie is
\* sent by the browser unless it has expired (maxAge 5 min).
AuCallback(c, code) ==
  /\ req[c].pc \in {"idle", "done"}
  /\ received < MaxHooks
  /\ received' = received + 1
  /\ \E cookie \in {Absent, CookieOf(c)} :
       LET r == AuthRequest("callback", "au_exchange", code, cookie)
           instanceName == CallbackInstanceName(cookie)
       IN req' = [req EXCEPT ![c] =
                    IF code = Absent THEN Answered(r, 400, "nocode")
                    ELSE IF instanceName = Absent
                         THEN Answered(r, 500, "noinstance")
                         ELSE [r EXCEPT !.instanceName = instanceName]]
  /\ UNCHANGED <<installations, now, gwVars, tokenVars>>

\* POST /oauth/token with grant_type authorization_code: the CRM issues a
\* token pair for a code of the marketplace, or refuses; a failure and a
\* response without locationId are thrown (the handler answers 500)
AuExchange(c) ==
  /\ req[c].pc = "au_exchange"
  /\ \/ /\ req[c].code # "code-used"
        /\ LET n == idp.issued + 1
               r == [req[c] EXCEPT !.exchanges = @ + 1, !.grant = n]
           IN /\ idp' = [idp EXCEPT
                           !.accepted =
                              @ @@ (Grant(n).access_token :>
                                      now + Grant(n).expires_in * MS_PER_S),
                           !.refresh = Grant(n).refresh_token,
                           !.issued = n]
              /\ req' = [req EXCEPT ![c] =
                           IF CodeLocation(req[c].code) = Absent
                           THEN Answered(r, 500, "nolocation")
                           ELSE [r EXCEPT !.pc = "au_save"]]
     \/ /\ req' = [req EXCEPT ![c] =
                     Answered([@ EXCEPT !.exchanges = @ + 1], 500, "exchangefailed")]
        /\ UNCHANGED idp
  /\ UNCHANGED <<installations, now, gwVars, rq, started, received>>

\* Model.saveInstallationInfo of installationData: the row after the upsert
\* at time t, with evolutionInstanceName: instanceName || "default"
SaveInstallation(row, loc, grant, instanceName, t) ==
  [location_id |-> loc,
   access_token |-> grant.access_token,
   refresh_token |-> grant.refresh_token,
   expires_in |-> grant.expires_in,
   updated_at |-> t,
   last_sync_at |-> t,
   integration_status |-> "active",
   evolution_instance_name |->
     IF instanceName # Absent THEN instanceName ELSE "default",
   conversation_provider_id |-> GHL_CONVERSATION_PROVIDER_ID,
   client_id |-> GHL_APP_CLIENT_ID,
   client_secret |-> GHL_APP_CLIENT_SECRET]

\* await this.model.saveInstallationInfo(installationData), then
\* res.redirect("https://app.gohighlevel.com/")
AuSave(c) ==
  /\ req[c].pc = "au_save"
  /\ LET loc == CodeLocation(req[c].code)
     IN installations' =
          [installations EXCEPT ![loc] =
             SaveInstallation(@, loc, Grant(req[c].grant), req[c].instanceName, now)]
  /\ req' = [req EXCEPT ![c] = Answered([@ EXCEPT !.saved = TRUE], 302, "installed")]
  /\ UNCHANGED <<now, gwVars, tokenVars, received>>

AuStep(c) ==
  \/ AuExchange(c)
  \/ AuSave(c)

(***************************************************************************)
(* The authorization of a tenant                                           *)
(***************************************************************************)
\* no tenant is installed, or L1 is installed for instance i1
StoresAuthorize == {[l \in LocIds |-> NoRow], InstalledL1}

InitAuthorize ==
  /\ installations \in StoresAuthorize
  /\ now = StartMs
  /\ recentProcessedMessages = <<>>
  /\ timers = {}
  /\ gw = [p \in Deliveries |-> Idle]
  /\ delivered = 0
  /\ crmContacts = {}
  /\ crmConversations = {}
  /\ idp = NoTokens
  /\ rq = [c \in Callers |-> Idle]
  /\ started = 0
  /\ req = [c \in Callers |-> Idle]
  /\ received = 0

NextAuthorize ==
  \/ \E c \in Callers, i \in Instances \cup {Absent} : AuStart(c, i)
  \/ \E c \in Callers, code \in Codes \cup {Absent} : AuCallback(c, code)
  \/ \E c \in Callers : AuStep(c)

SpecAuthorize == InitAuthorize /\ [][NextAuthorize]_vars

(***************************************************************************)
(* The gateway webhook with messages of one chat                           *)
(***************************************************************************)
\* provider timestamp (s) of a message sent a minute before the run
T0 == T1 - 60

\* fromMe=true events of the chat J1: two messages, of a group chat
\* (participant J2) or of a direct chat (no participant), sent at the start of
\* the run or a minute before it
ChatEvents ==
  {[UpsertEvent(TRUE, id, J1, part) EXCEPT !.ts = ts] :
     id \in MsgIds, part \in {J2, Absent}, ts \in {T0, T1}}

\* the run is observed at its start, once the recency window of the start
\* has closed, and once the similarity window of the start has closed
SimilarInstants == {StartMs, StartMs + RECENT_MS, StartMs + SIMILAR_MS}

\* the deliveries are handled one after the other; no entry is due in the
\* time observed
NextSimilar ==
  \/ \E ev \in ChatEvents : GwReceive("d1", ev)
  \/ ObStep("d1")
  \/ \E t \in SimilarInstants : Tick(t)

SpecSimilar == InitDedup /\ [][NextSimilar]_vars

(***************************************************************************)
(* The CRM webhook with INSTALL events                                     *)
(***************************************************************************)
\* req.body of an INSTALL
InstallEvents == [type : {"INSTALL"}, locationId : LocationIds]

\* L1 is installed for instance i1, or without an instance name, with the
\* status active or pending
StoresInstall ==
  {[InstalledL1 EXCEPT !["L1"].evolution_instance_name = i,
                       !["L1"].integration_status = s] :
     i \in {"i1", Absent}, s \in {"active", "pending"}}

InitInstall ==
  /\ installations \in StoresInstall
  /\ now = StartMs
  /\ recentProcessedMessages = <<>>
  /\ timers = {}
  /\ gw = [p \in Deliveries |-> Idle]
  /\ delivered = 0
  /\ crmContacts = {}
  /\ crmConversations = {}
  /\ idp = InstallTokens
  /\ rq = [c \in Callers |-> Idle]
  /\ started = 0
  /\ req = [c \in Callers |-> Idle]
  /\ received = 0

NextInstall ==
  \/ \E c \in Callers, ev \in InstallEvents : GhlInstall(c, ev)
  \/ \E c \in Callers : InstallStep(c)

SpecInstall == InitInstall /\ [][NextInstall]_vars

(***************************************************************************)
(* model.ts: GHLCredentialsValidator.extractLocationId and                 *)
(* validateInstallationExists                                              *)
(***************************************************************************)
\* the places of a request that can name the tenant: req.params.resourceId,
\* req.body.locationId, req.query.locationId, the header x-ghl-location-id
\* and a cookie
TenantRequests ==
  [params : LocationIds, body : LocationIds, query : LocationIds,
   header : LocationIds, cookie : LocationIds]

\* extractLocationId(req): null when no place names the tenant
ExtractLocationId(r) ==
  IF r.params # Absent THEN r.params
  ELSE IF r.body # Absent THEN r.body
  ELSE IF r.query # Absent THEN r.query
  ELSE IF r.header # Absent THEN r.header
  ELSE Absent

\* validateInstallationExists up to getInstallationInfo: 400 without a
\* locationId
VxReceive(c, r) ==
  /\ req[c].pc \in {"idle", "done"}
  /\ received < MaxHooks
  /\ received' = received + 1
  /\ LET x == [pc |-> "vx_info", kind |-> "tenant", request |-> r,
               status |-> 0, outcome |-> "",
               locationId |-> ExtractLocationId(r)]
     IN req' = [req EXCEPT ![c] =
                  IF x.locationId = Absent THEN Answered(x, 400, "nolocation")
                  ELSE x]
  /\ UNCHANGED <<installations, now, gwVars, tokenVars>>

\* getInstallationInfo(locationId): 404 without an installation, else the
\* request goes on to its route with req.locationId set
VxInfo(c) ==
  /\ req[c].pc = "vx_info"
  /\ req' = [req EXCEPT ![c] =
               IF GetInstallationInfo(req[c].locationId) = NoRow
               THEN Answered(@, 404, "notinstalled")
               ELSE Answered(@, 0, "next")]
  /\ UNCHANGED <<installations, now, gwVars, tokenVars, received>>

NextTenant ==
  \/ \E r \in TenantRequests : VxReceive("c1", r)
  \/ VxInfo("c1")

SpecTenant == InitDedup /\ [][NextTenant]_vars

(***************************************************************************)
(* The CRM webhook with the events of every type                           *)
(***************************************************************************)
\* req.body of an OutboundMessage that passes the anti-loop checks, and of an
\* UNINSTALL that names its subaccount only
HookMessages ==
  [type : {"OutboundMessage"}, locationId : LocationIds,
   contactId : {"ct1"}, body : {TextOi}, direction : {"outbound"},
   source : {SourceApp}, conversationProviderId : {"cp1"},
   messageId : {"mid1"}]
HookUninstalls ==
  [type : {"UNINSTALL"}, locationId : LocationIds, companyId : {Absent}]

\* L1 is installed; L2 is not installed, or its row has no client secret, or
\* the client id of another application
StoresHooks ==
  {[InstalledL1 EXCEPT !["L2"] = row] :
     row \in {NoRow,
              [Row("L2", "i2", "cp1", "at0") EXCEPT !.client_secret = Absent],
              [Row("L2", "i2", "cp1", "at0") EXCEPT !.client_id = "other-id"]}}

InitHooks ==
  /\ installations \in StoresHooks
  /\ now = StartMs
  /\ recentProcessedMessages = <<>>
  /\ timers = {}
  /\ gw = [p \in Deliveries |-> Idle]
  /\ delivered = 0
  /\ crmContacts = {}
  /\ crmConversations = {}
  /\ idp \in {[InstallTokens EXCEPT !.shape = sh] : sh \in {"wrapped", "plain"}}
  /\ rq = [c \in Callers |-> Idle]
  /\ started = 0
  /\ req = [c \in Callers |-> Idle]
  /\ received = 0

\* the OutboundMessage events are handled one after the other, the other
\* events two at a time
NextHooks ==
  \/ \E ev \in HookMessages : GhlWebhook("c1", ev)
  \/ \E c \in Callers, ev \in InstallEvents : GhlInstall(c, ev)
  \/ \E c \in Callers, ev \in HookUninstalls : GhlUninstall(c, ev)
  \/ \E c \in Callers, ev \in UnhandledEvents : GhlUnhandled(c, ev)
  \/ WhContact("c1")
  \/ WhConversation("c1")
  \/ WhSend("c1")
  \/ RqStep("c1")
  \/ \E c \in Callers : InstallStep(c)
  \/ \E c \in Callers : UnCheck(c)
  \/ \E c \in Callers : UnDelete(c)

SpecHooks == InitHooks /\ [][NextHooks]_vars

(***************************************************************************)
(* model.ts: GHLCredentialsValidator.validateGHLCredentials;               *)
(* index.ts: POST /integration/setup, /integration/send-message and        *)
(* /integration/sync-contacts; ghl.ts: IntegrationService.syncContacts     *)
(***************************************************************************)
\* a request to a guarded route: locationId of the body and of the header
\* x-ghl-location-id, the headers x-ghl-client-id and x-ghl-client-secret,
\* and resourceId and evolutionInstanceName of the body
GuardedRequests ==
  [route : {"setup", "send", "sync"}, locationId : {"L2", Absent},
   header : {"L1", Absent}, clientId : {GHL_APP_CLIENT_ID, "other-id", Absent},
   clientSecret : {GHL_APP_CLIENT_SECRET}, resourceId : LocationIds,
   evolutionInstanceName : {Absent}]

\* extractLocationId(req) of a request to a guarded route, which has no
\* parameter in its path
GuardedLocationId(r) ==
  ExtractLocationId([params |-> Absent, body |-> r.locationId,
                     query |-> Absent, header |-> r.header, cookie |-> Absent])

\* the tenant a guarded route works on: const {resourceId} = req.body
RouteTenant(r) == r.resourceId

\* a request to a guarded route in its handler: validated is the locationId
\* that validateGHLCredentials has put into req.locationId, ev.locationId the
\* resourceId the route hands to the service
GuardedRequest(r) ==
  [InstallRequest([type |-> r.route, locationId |-> RouteTenant(r),
                   messageId |-> Absent])
     EXCEPT !.kind = "guarded"]
    @@ [request |-> r, validated |-> Absent]

\* validateGHLCredentials up to getInstallationInfo: 400 without locationId,
\* 401 without the two headers
GcReceive(c, r) ==
  /\ req[c].pc \in {"idle", "done"}
  /\ received < MaxHooks
  /\ received' = received + 1
  /\ LET x == GuardedRequest(r)
     IN req' = [req EXCEPT ![c] =
                  IF GuardedLocationId(r) = Absent
                  THEN Answered(x, 400, "nolocation")
                  ELSE IF r.clientId = Absent \/ r.clientSecret = Absent
                  THEN Answered(x, 401, "nocredentials")
                  ELSE [x EXCEPT !.pc = "gc_info"]]
  /\ UNCHANGED <<installations, now, gwVars, tokenVars>>

\* validateGHLCredentials after getInstallationInfo(locationId): 404 without
\* an installation, 401 when a header differs from the stored credential;
\* else next(), and the route up to its first await: 400 without
\* resourceId, then setupIntegration(resourceId, evolutionInstanceName) or
\* getInstallationInfo(resourceId)
GcInfo(c) ==
  /\ req[c].pc = "gc_info"
  /\ LET r == req[c].request
         locationId == GuardedLocationId(r)
         row == GetInstallationInfo(locationId)
     IN req' = [req EXCEPT ![c] =
                  IF row = NoRow THEN Answered(@, 404, "notinstalled")
                  ELSE IF \/ row.client_id # r.clientId
                          \/ row.client_secret # r.clientSecret
                  THEN Answered(@, 401, "badcredentials")
                  ELSE IF RouteTenant(r) = Absent
                  THEN Answered([@ EXCEPT !.validated = locationId],
                                400, "noresource")
                  ELSE IF r.route = "setup"
                  THEN [@ EXCEPT !.validated = locationId,
                                 !.pc = "su_info",
                                 !.instance =
                                    IF r.evolutionInstanceName # Absent
                                    THEN r.evolutionInstanceName
                                    ELSE DefaultInstanceName]
                  ELSE [@ EXCEPT !.validated = locationId, !.pc = "gc_route"]]
  /\ UNCHANGED <<installations, now, gwVars, tokenVars, received>>

\* the routes send-message and sync-contacts after
\* getInstallationInfo(resourceId): 404 without an installation, else
\* sendMessageToWhatsApp(resourceId, contactId, message, messageId) or
\* syncContacts(resourceId)
GcRoute(c) ==
  /\ req[c].pc = "gc_route"
  /\ LET resourceId == req[c].ev.locationId
         row == GetInstallationInfo(resourceId)
     IN req' = [req EXCEPT ![c] =
                  IF row = NoRow THEN Answered(@, 404, "refused")
                  ELSE [@ EXCEPT
                          !.pc = IF req[c].request.route = "send"
                                 THEN "sm_info" ELSE "sc_info",
                          !.sm = SendMessageToWhatsApp(resourceId, "ct1",
                                                       TextOi, Absent),
                          !.instance =
                             IF row.evolution_instance_name = Absent
                             THEN DefaultInstanceName
                             ELSE row.evolution_instance_name]]
  /\ UNCHANGED <<installations, now, gwVars, tokenVars, received>>

\* syncContacts: getInstallationInfo(resourceId), then getGHLContacts
ScInfo(c) ==
  /\ req[c].pc = "sc_info"
  /\ IF GetInstallationInfo(req[c].ev.locationId) = NoRow THEN
       /\ req' = [req EXCEPT ![c] = Answered(@, 400, "INSTALLATION_NOT_FOUND")]
       /\ UNCHANGED rq
     ELSE
       /\ req' = [req EXCEPT ![c].pc = "sc_contacts"]
       /\ Submit(c, req[c].ev.locationId)
  /\ UNCHANGED <<installations, now, gwVars, idp, started, received>>

\* syncContacts after getGHLContacts: a failure is returned; else the
\* contacts are looked up in the gateway and updateLastSyncTime(resourceId)
\* ends the synchronisation, whose failure is returned too
ScContacts(c) ==
  /\ req[c].pc = "sc_contacts"
  /\ Settled(c)
  /\ IF rq[c].result # "ok" THEN
       /\ req' = [req EXCEPT ![c] = Answered(@, 400, "contacts")]
       /\ UNCHANGED installations
     ELSE \E stored \in BOOLEAN :
       IF stored THEN
         /\ installations' =
              [installations EXCEPT ![req[c].ev.locationId] =
                 UpdateLastSyncTime(@, now)]
         /\ req' = [req EXCEPT ![c] =
                      Answered([@ EXCEPT !.calls =
                                  Append(@, <<"contactInfo", req[c].instance>>)],
                               200, "synced")]
       ELSE
         /\ req' = [req EXCEPT ![c] = Answered(@, 400, "syncfailed")]
         /\ UNCHANGED installations
  /\ UNCHANGED <<now, gwVars, tokenVars, received>>

\* POST /integration/setup after setupIntegration has returned: 200 on
\* success, 400 else
SetupRespond(c) ==
  /\ req[c].pc = "noresponse"
  /\ req[c].kind = "guarded"
  /\ req' = [req EXCEPT ![c] =
               Answered(@, IF req[c].outcome = "configured" THEN 200 ELSE 400,
                        req[c].outcome)]
  /\ UNCHANGED <<installations, now, gwVars, tokenVars, received>>

GuardedStep(c) ==
  \/ GcInfo(c)
  \/ GcRoute(c)
  \/ ScInfo(c)
  \/ ScContacts(c)
  \/ SetupRespond(c)
  \/ SuInfo(c)
  \/ SuSave(c)
  \/ SuState(c)
  \/ SuCreate(c)
  \/ SuActive(c)
  \/ SuError(c)

(***************************************************************************)
(* The routes guarded by the client credentials                            *)
(***************************************************************************)
\* L1 is installed; L2 is not installed, or installed with the credentials
\* of the application, as the authorization stores them, or with the client
\* id of another application
StoresGuarded ==
  {[InstalledL1 EXCEPT !["L2"] = row] :
     row \in {NoRow, Row("L2", "i2", "cp1", "at0"),
              [Row("L2", "i2", "cp1", "at0") EXCEPT !.client_id = "other-id"]}}

InitGuarded ==
  /\ installations \in StoresGuarded
  /\ now = StartMs
  /\ recentProcessedMessages = <<>>
  /\ timers = {}
  /\ gw = [p \in Deliveries |-> Idle]
  /\ delivered = 0
  /\ crmContacts = {}
  /\ crmConversations = {}
  /\ idp = InstallTokens
  /\ rq = [c \in Callers |-> Idle]
  /\ started = 0
  /\ req = [c \in Callers |-> Idle]
  /\ received = 0

\* the requests are handled one after the other
NextGuarded ==
  \/ \E r \in GuardedRequests : GcReceive("c1", r)
  \/ GuardedStep("c1")
  \/ SmInfo("c1")
  \/ SmContact("c1")
  \/ SmSend("c1")
  \/ SmSync("c1")
  \/ RqStep("c1")

SpecGuarded == InitGuarded /\ [][NextGuarded]_vars

(***************************************************************************)
(* The gateway webhook with the events of two instances                    *)
(***************************************************************************)
\* fromMe=true events of the chat J1 sent at the start of the run: two
\* messages, of a group chat or of a direct chat, of instance i1 or i2
InstanceEvents ==
  {[UpsertEvent(TRUE, id, J1, part) EXCEPT !.instance = i] :
     id \in MsgIds, part \in {J2, Absent}, i \in Instances}

\* the instance whose events handler p receives
InstanceOf(p) == IF p = "d1" THEN "i1" ELSE "i2"

\* L1 is installed for instance i1 and L2 for instance i2
InitInstances ==
  /\ installations = [InstalledL1 EXCEPT !["L2"] = Row("L2", "i2", "cp2", "at0")]
  /\ now = StartMs
  /\ recentProcessedMessages = <<>>
  /\ timers = {}
  /\ gw = [p \in Deliveries |-> Idle]
  /\ delivered = 0
  /\ crmContacts = {}
  /\ crmConversations = {}
  /\ idp = NoTokens
  /\ rq = [c \in Callers |-> Idle]
  /\ started = 0
  /\ req = [c \in Callers |-> Idle]
  /\ received = 0

\* the events of an instance are handled one after the other, those of the
\* two instances at the same time
NextInstances ==
  \/ \E p \in Deliveries, ev \in InstanceEvents :
       ev.instance = InstanceOf(p) /\ GwReceive(p, ev)
  \/ \E p \in Deliveries : ObStep(p)
  \/ \E t \in SimilarInstants : Tick(t)

SpecInstances == InitInstances /\ [][NextInstances]_vars

(***************************************************************************)
(* The guarded routes of one tenant while its access token expires         *)
(***************************************************************************)
\* requests for L1 with the credentials of L1
OwnRequests ==
  [route : {"setup", "send", "sync"}, locationId : {Absent},
   header : {"L1"}, clientId : {GHL_APP_CLIENT_ID},
   clientSecret : {GHL_APP_CLIENT_SECRET}, resourceId : {"L1"},
   evolutionInstanceName : {Absent}]

NextWindow ==
  \/ \E r \in OwnRequests : GcReceive("c1", r)
  \/ GuardedStep("c1")
  \/ SmInfo("c1")
  \/ SmContact("c1")
  \/ SmSend("c1")
  \/ SmSync("c1")
  \/ RqStep("c1")
  \/ \E t \in TokenInstants : Tick(t)

SpecWindow == InitGuarded /\ [][NextWindow]_vars

(***************************************************************************)
(* The CRM webhook with UNINSTALL events of the subaccounts of a company   *)
(***************************************************************************)
\* req.body of an UNINSTALL of a subaccount, of the company, or of neither
CompanyUninstalls ==
  [type : {"UNINSTALL"}, locationId : LocationIds, companyId : {"C1", Absent}]

\* both subaccounts are installed
InitUninstall ==
  /\ installations = [InstalledL1 EXCEPT !["L2"] = Row("L2", "i2", "cp2", "at0")]
  /\ now = StartMs
  /\ recentProcessedMessages = <<>>
  /\ timers = {}
  /\ gw = [p \in Deliveries |-> Idle]
  /\ delivered = 0
  /\ crmContacts = {}
  /\ crmConversations = {}
  /\ idp = InstallTokens
  /\ rq = [c \in Callers |-> Idle]
  /\ started = 0
  /\ req = [c \in Callers |-> Idle]
  /\ received = 0

NextUninstall ==
  \/ \E c \in Callers, ev \in CompanyUninstalls : GhlUninstall(c, ev)
  \/ \E c \in Callers : UnCheck(c)
  \/ \E c \in Callers : UnDelete(c)

SpecUninstall == InitUninstall /\ [][NextUninstall]_vars

(***************************************************************************)
(* The gateway webhook of a tenant without conversation provider id        *)
(***************************************************************************)
\* L1 is installed for instance i1, with or without a conversation provider
\* id
StoresProvider ==
  {[InstalledL1 EXCEPT !["L1"].conversation_provider_id = id] :
     id \in {"cp1", Absent}}

InitProvider ==
  /\ installations \in StoresProvider
  /\ now = StartMs
  /\ recentProcessedMessages = <<>>
  /\ timers = {}
  /\ gw = [p \in Deliveries |-> Idle]
  /\ delivered = 0
  /\ crmContacts = {}
  /\ crmConversations = {}
  /\ idp = NoTokens
  /\ rq = [c \in Callers |-> Idle]
  /\ started = 0
  /\ req = [c \in Callers |-> Idle]
  /\ received = 0

\* messages sent by the company in the direct chat J1
NextProvider ==
  \/ \E p \in Deliveries, id \in MsgIds :
       GwReceive(p, UpsertEvent(TRUE, id, J1, Absent))
  \/ \E p \in Deliveries : ObStep(p)

SpecProvider == InitProvider /\ [][NextProvider]_vars

(***************************************************************************)
(* Properties of the dedup admission                                       *)
(***************************************************************************)
\* a delivery of a fromMe=true event that went past the admission
Admitted(r) ==
  /\ r.pc # "idle"
  /\ r.key # <<>>
  /\ r.outcome \notin {"duplicate", "similar"}

\* a delivery answered with success, as a duplicate, without any call made
Suppressed(r, outcomes) ==
  /\ r.pc = "done"
  /\ r.status = 200
  /\ r.outcome \in outcomes
  /\ r.log = <<>>

\* two deliveries of the same fingerprint that are handled at the same time
SameFingerprintAtOnce(p, q) ==
  /\ p # q
  /\ gw[p].pc # "idle"
  /\ gw[q].pc # "idle"
  /\ gw[p].key # <<>>
  /\ gw[p].key = gw[q].key
  /\ gw[p].at = gw[q].at

\* C1 as stated: of two deliveries of the same fingerprint that are handled at
\* the same time, exactly one is admitted and the other one is answered with
\* success as a duplicate, without relaying (unless an earlier delivery had
\* cached the fingerprint before the two, and both are its duplicates).
C1_ExactlyOneAdmitted ==
  \A p, q \in Deliveries :
    SameFingerprintAtOnce(p, q) =>
      \/ Admitted(gw[p]) /\ Suppressed(gw[q], {"duplicate"})
      \/ Admitted(gw[q]) /\ Suppressed(gw[p], {"duplicate"})
      \/ Suppressed(gw[p], {"duplicate"}) /\ Suppressed(gw[q], {"duplicate"})

\* C1 as amended: of two deliveries of the same fingerprint that are handled at
\* the same time, at most one is admitted; every one that is not admitted is
\* answered with success, as a duplicate of the fingerprint or as a similar
\* message, without any call to the CRM.
C1_AtMostOneAdmitted ==
  \A p, q \in Deliveries :
    SameFingerprintAtOnce(p, q) =>
      /\ ~(Admitted(gw[p]) /\ Admitted(gw[q]))
      /\ ~Admitted(gw[p]) => Suppressed(gw[p], {"duplicate", "similar"})
      /\ ~Admitted(gw[q]) => Suppressed(gw[q], {"duplicate", "similar"})

\* C1 witness: one delivery is in its relay while the other delivery of the
\* same fingerprint, received at the same time, was answered as a duplicate.
C1_Witness ==
  \E p, q \in Deliveries :
    /\ SameFingerprintAtOnce(p, q)
    /\ gw[p].pc = "ob_post"
    /\ Suppressed(gw[q], {"duplicate"})

\* the delivery that the step p handled, if the step is the receipt of a
\* fromMe=true event by p
Receipt(p) ==
  /\ delivered' = delivered + 1
  /\ gw'[p] # gw[p]
  /\ gw'[p].key # <<>>

Obtains(c) ==
  /\ started' = started + 1
  /\ rq'[c] # rq[c]
  /\ rq'[c].pc = "sent"

\* the request of d carries a token obtained since the row of loc was last
\* written
ObtainedSinceSave(d, loc) ==
  /\ rq[d].pc = "sent"
  /\ rq[d].via = "instance"
  /\ rq[d].loc = loc
  /\ rq[d].at > installations[loc].updated_at

\* C3: a request for the access token that is made while the stored token is
\* valid (updated_at + expires_in seconds > now) returns the stored token and
\* makes no call to the token endpoint: the store and the CRM's tokens are
\* unchanged, and the token is identical to the one every other request
\* obtained since the row was last written.
C3_ValidTokenIsReturned ==
  [][\A c \in Callers :
       (/\ Obtains(c)
        /\ installations[rq'[c].loc] # NoRow
        /\ TokenValid(installations[rq'[c].loc], now))
       => /\ rq'[c].auth = installations[rq'[c].loc].access_token
          /\ UNCHANGED <<installations, idp>>
          /\ \A d \in Callers \ {c} :
               ObtainedSinceSave(d, rq'[c].loc) => rq[d].auth = rq'[c].auth]_vars

\* C3 witness: two requests carry the same stored token, both obtained while
\* it was valid, and no token has been issued by the token endpoint.
C3_Witness ==
  /\ \A c \in Callers : ObtainedSinceSave(c, "L1")
  /\ rq["c1"].auth = rq["c2"].auth
  /\ rq["c1"].auth = installations["L1"].access_token
  /\ idp.issued = 0

\* C4: obtaining the access token never gives an absent token, and no CRM
\* request is sent with an absent token.
C4_NoAbsentToken ==
  \A c \in Callers : rq[c].pc = "sent" => rq[c].auth # Absent

\* C5: a request makes at most one token refresh and is resubmitted at most
\* once, it is marked as retried before it is resubmitted, and a 401 on the
\* resubmitted request goes to the caller.
C5_OneRetry ==
  \A c \in Callers :
    rq[c].pc # "idle" =>
      /\ rq[c].refreshes <= 1
      /\ rq[c].resubmits <= 1
      /\ rq[c].resubmits = 1 => rq[c].retry /\ rq[c].refreshes = 1
      /\ rq[c].pc \notin {"sent", "done"} => rq[c].retry /\ rq[c].resubmits = 0
      /\ (rq[c].pc = "done" /\ rq[c].resubmits = 1 /\ rq[c].status = 401)
           => rq[c].result = "rejected"

\* C5 witness: a request was answered 401, refreshed the token, was
\* resubmitted, was answered 401 again and gave that answer to its caller.
C5_Witness ==
  \E c \in Callers :
    /\ rq[c].pc = "done"
    /\ rq[c].refreshes = 1
    /\ rq[c].resubmits = 1
    /\ rq[c].status = 401
    /\ rq[c].result = "rejected"

\* a request that is inside refreshAccessToken
InRefresh(r) ==
  r.pc \in {"rf_read", "rf_post", "rf_save", "rf_probe_read", "rf_probe", "rf_mark"}

\* C6: at most one refresh is in flight per tenant, and two requests never
\* send the same stored refresh token to the token endpoint.
C6_OneRefreshInFlight ==
  \A c, d \in Callers :
    (c # d /\ rq[c].pc # "idle" /\ rq[d].pc # "idle" /\ rq[c].loc = rq[d].loc)
    => /\ ~(InRefresh(rq[c]) /\ InRefresh(rq[d]))
       /\ (rq[c].pc = "rf_post" /\ rq[d].sentRt # Absent)
            => rq[c].sentRt # rq[d].sentRt

\* C7: when the permission probe after an exchange is answered 401, the
\* refresh marks the tenant's integration_status as error and throws: the
\* request ends with that error, is not resubmitted and never ends with
\* success.
C7_ProbeUnauthorized ==
  [][\A c \in Callers :
       /\ (rq[c].pc = "rf_probe" /\ rq'[c] # rq[c] /\ rq'[c].probe = 401)
            => rq'[c].pc = "rf_mark"
       /\ (rq[c].pc = "rf_mark" /\ rq'[c] # rq[c])
            => /\ installations'[rq[c].loc].integration_status = "error"
               /\ rq'[c].pc = "done"
               /\ rq'[c].result = "autherror"
               /\ rq'[c].resubmits = 0
       /\ (rq'[c].pc = "done" /\ rq'[c].probe = 401)
            => rq'[c].result = "autherror"]_vars

\* C7 witness: the exchange of a request succeeded, its probe was answered
\* 401, the tenant is in error and the request ended with the error.
C7_Witness ==
  \E c \in Callers :
    /\ rq[c].pc = "done"
    /\ rq[c].grant > 0
    /\ rq[c].probe = 401
    /\ rq[c].result = "autherror"
    /\ installations[rq[c].loc].integration_status = "error"

(***************************************************************************)
(* Properties of the CRM webhook                                           *)
(***************************************************************************)
\* the request of c is an OutboundMessage received by POST /webhook/ghl
Outbound(c) == req[c].pc # "idle" /\ req[c].kind = "webhook"

\* the event names an installed tenant whose stored credentials are the ones
\* of the app
FromInstalledTenant(ev) ==
  /\ ev.locationId \in LocIds
  /\ installations[ev.locationId] # NoRow
  /\ installations[ev.locationId].client_id = GHL_APP_CLIENT_ID
  /\ installations[ev.locationId].client_secret = GHL_APP_CLIENT_SECRET

\* the event carries a reserved marker or comes from a webhook/API source
Reserved(ev) == HasSystemMarker(ev.body) \/ IsSuspectSource(ev.source)

\* the event carries all the fields the handler requires
Complete(ev) ==
  /\ ev.conversationProviderId # Absent
  /\ ev.locationId # Absent
  /\ ev.contactId # Absent
  /\ ~Falsy(ev.body)

\* C8: an OutboundMessage whose direction is "inbound" causes no call to the
\* send-API of the gateway, whatever its other fields are: it is answered at
\* once, with 200 unless the webhook validation refuses it, and no request is
\* made for it.
C8_InboundNeverSent ==
  \A c \in GhlHandlers :
    (Outbound(c) /\ req[c].ev.direction = "inbound") =>
      /\ req[c].sends = <<>>
      /\ req[c].pc = "done"
      /\ req[c].status = 200 \/ req[c].outcome = "refused"

\* C8 witness: an OutboundMessage of an installed tenant that lacks nothing
\* and carries no marker was answered 200 as inbound, without a send.
C8_Witness ==
  \E c \in GhlHandlers :
    /\ Outbound(c)
    /\ req[c].ev.direction = "inbound"
    /\ FromInstalledTenant(req[c].ev)
    /\ Complete(req[c].ev)
    /\ ~Reserved(req[c].ev)
    /\ req[c].status = 200
    /\ req[c].sends = <<>>

\* C9 as stated: an OutboundMessage with a reserved marker in its text or with
\* a webhook/API source causes no call to the send-API and is answered 200,
\* whatever other fields it lacks.
C9_ReservedDiscarded ==
  \A c \in GhlHandlers :
    (Outbound(c) /\ Reserved(req[c].ev)) =>
      /\ req[c].sends = <<>>
      /\ req[c].pc = "done"
      /\ req[c].status = 200

\* C9 as amended: an OutboundMessage with a reserved marker in its text or
\* with a webhook/API source causes no call to the send-API; when it names an
\* installed tenant with the credentials of the app it is answered 200, also
\* when it lacks the contact id or the conversation provider id.
C9_ReservedDiscardedIfValid ==
  \A c \in GhlHandlers :
    (Outbound(c) /\ Reserved(req[c].ev)) =>
      /\ req[c].sends = <<>>
      /\ req[c].pc = "done"
      /\ FromInstalledTenant(req[c].ev) => req[c].status = 200
      /\ ~FromInstalledTenant(req[c].ev) =>
           req[c].status \in {400, 401, 404} /\ req[c].outcome = "refused"

\* C9 witness: an outbound OutboundMessage of an installed tenant with a
\* marker in its text and without contact id was answered 200.
C9_Witness ==
  \E c \in GhlHandlers :
    /\ Outbound(c)
    /\ req[c].ev.direction = "outbound"
    /\ HasSystemMarker(req[c].ev.body)
    /\ req[c].ev.contactId = Absent
    /\ FromInstalledTenant(req[c].ev)
    /\ req[c].status = 200
    /\ req[c].outcome = "marker"

\* C10: an OutboundMessage that passes the three filters, carries all
\* required fields and names an installed tenant, and whose contact was read
\* from the CRM with a phone number, ends (if no CRM request failed) with
\* exactly one call to the send-API, to that phone number with the text of
\* the event, and with success when the gateway accepted the call.
C10_OutboundRelayed ==
  \A c \in GhlHandlers :
    (/\ Outbound(c)
     /\ req[c].pc = "done"
     /\ OutboundFilter(req[c].ev) = "pass"
     /\ FromInstalledTenant(req[c].ev)
     /\ req[c].phone # Absent
     /\ req[c].outcome # "error")
    => /\ Len(req[c].sends) = 1
       /\ req[c].sends[1][2] = FormatNumber(req[c].phone)
       /\ req[c].sends[1][3] = req[c].ev.body
       /\ req[c].outcome = "sent" => req[c].status = 200

(***************************************************************************)
(* Properties of the gateway webhook                                       *)
(***************************************************************************)
\* the number of calls op in the log of a request
RECURSIVE Count(_, _)
Count(log, op) ==
  IF log = <<>> THEN 0
  ELSE (IF Head(log)[1] = op THEN 1 ELSE 0) + Count(Tail(log), op)

\* the delivery of handler p is a fromMe=false message with a sender
InboundMessage(p) ==
  /\ gw[p].pc \in InboundPcs \cup {"done"}
  /\ ~gw[p].fromMe
  /\ gw[p].phone # Absent

\* the delivery of handler p has been relayed into the CRM with success
Relayed(p) ==
  gw[p].pc = "done" /\ gw[p].status = 200 /\ gw[p].outcome = "relayed"

\* C11: a fromMe=false message of a number without CRM contact, relayed with
\* success on its own, has made exactly one contact-create and exactly one
\* conversation-create call; a message of the same number received after
\* that makes no contact-create and no conversation-create call.
C11_CreatesOnce ==
  \A p \in Deliveries :
    InboundMessage(p) =>
      /\ (Relayed(p) /\ gw[p].fresh /\ gw[p].alone) =>
           /\ Count(gw[p].log, "contactCreate") = 1
           /\ Count(gw[p].log, "conversationCreate") = 1
      /\ gw[p].after =>
           /\ Count(gw[p].log, "contactCreate") = 0
           /\ Count(gw[p].log, "conversationCreate") = 0

\* C11 witness: the first message of a number has been relayed with one
\* create call of each kind, and the next one without any.
C11_Witness ==
  \E p, q \in Deliveries :
    /\ InboundMessage(p) /\ Relayed(p) /\ gw[p].fresh /\ gw[p].alone
    /\ Count(gw[p].log, "contactCreate") = 1
    /\ Count(gw[p].log, "conversationCreate") = 1
    /\ InboundMessage(q) /\ Relayed(q) /\ gw[q].after
    /\ gw[q].phone = gw[p].phone /\ gw[q].instance = gw[p].instance
    /\ Count(gw[q].log, "contactCreate") = 0
    /\ Count(gw[q].log, "conversationCreate") = 0

\* the steps of the relay of a fromMe=true delivery
OutboundPcs ==
  {"ob_lookup", "ob_loctest", "ob_search", "ob_taginfo", "ob_create", "ob_post"}

\* handler p receives a delivery in this step
Received(p) ==
  /\ delivered' = delivered + 1
  /\ gw[p].pc \in {"idle", "done"}
  /\ gw'[p] # gw[p]

\* C14: a delivery whose event is not messages.upsert is answered 200 when it
\* is received, makes no call to the CRM, and leaves the dedup cache and its
\* timers as they were.
C14_OtherEventsIgnored ==
  [][\A p \in Deliveries :
       /\ (Received(p) /\ gw'[p].event # "messages.upsert") =>
            UNCHANGED <<recentProcessedMessages, timers, crmContacts,
                        crmConversations, installations>>
       /\ (gw'[p].pc # "idle" /\ gw'[p].event # "messages.upsert") =>
            /\ gw'[p].pc = "done"
            /\ gw'[p].status = 200
            /\ gw'[p].log = <<>>]_vars

\* C14 witness: an event that is not a message was answered 200 while the
\* cache held an entry.
C14_Witness ==
  \E p \in Deliveries :
    /\ gw[p].pc = "done"
    /\ gw[p].event # "messages.upsert"
    /\ gw[p].status = 200
    /\ gw[p].log = <<>>
    /\ recentProcessedMessages # <<>>

\* C15: a fromMe=true message enters the direct-channel relay only in a step
\* that admits it, its key not cached before and cached after, and never
\* enters the inbound relay; a fromMe=false message enters the inbound relay
\* when it has a sender, whatever the cache holds, never the direct-channel
\* relay, and the step leaves the cache and its timers as they were.
C15_RoutedByFromMe ==
  [][\A p \in Deliveries :
       /\ (/\ Received(p)
           /\ gw'[p].event = "messages.upsert"
           /\ gw'[p].fromMe
           /\ gw'[p].pc = "ob_lookup") =>
              /\ gw'[p].key \notin DOMAIN recentProcessedMessages
              /\ gw'[p].key \in DOMAIN recentProcessedMessages'
       /\ (Received(p) /\ gw'[p].event = "messages.upsert" /\ ~gw'[p].fromMe) =>
            /\ UNCHANGED <<recentProcessedMessages, timers>>
            /\ gw'[p].phone # Absent => gw'[p].pc = "in_lookup"
       /\ gw'[p].pc \in OutboundPcs => gw'[p].fromMe
       /\ gw'[p].pc \in InboundPcs => ~gw'[p].fromMe]_vars

\* C15 witness: a fromMe=false message is in the inbound relay although the
\* cache holds the key of a fromMe=true message with its id and its sender,
\* which is in the direct-channel relay.
C15_Witness ==
  \E p, q \in Deliveries :
    /\ gw[p].pc \in InboundPcs /\ ~gw[p].fromMe
    /\ gw[q].pc \in OutboundPcs /\ gw[q].fromMe
    /\ gw[q].key \in DOMAIN recentProcessedMessages
    /\ gw[q].phone = gw[p].phone

\* C16: the direct-channel relay of a fromMe=true message makes no
\* conversation-search and no conversation-create call; it posts the message
\* with the conversation_provider_id stored for the tenant, and when it ends
\* with success it has searched the contact by phone once, created it at most
\* once, the contact exists, and the message was posted once.
C16_DirectChannelRelay ==
  \A p \in Deliveries :
    (gw[p].pc # "idle" /\ gw[p].event = "messages.upsert" /\ gw[p].fromMe) =>
      /\ Count(gw[p].log, "conversationSearch") = 0
      /\ Count(gw[p].log, "conversationCreate") = 0
      /\ \A i \in DOMAIN gw[p].log :
           gw[p].log[i][1] = "messagePostCustom" =>
             /\ gw[p].log[i][3] # Absent
             /\ gw[p].log[i][3] =
                  installations[gw[p].log[i][2]].conversation_provider_id
      /\ Relayed(p) =>
           /\ Count(gw[p].log, "contactSearch") = 1
           /\ Count(gw[p].log, "contactCreate") <= 1
           /\ Count(gw[p].log, "messagePostCustom") = 1
           /\ <<gw[p].target.location_id, gw[p].phone>> \in crmContacts

\* C16 witness: a fromMe=true message was relayed with a new contact, and no
\* conversation exists for the contact.
C16_Witness ==
  \E p \in Deliveries :
    /\ gw[p].pc = "done" /\ gw[p].fromMe /\ Relayed(p)
    /\ Count(gw[p].log, "contactCreate") = 1
    /\ Count(gw[p].log, "messagePostCustom") = 1
    /\ <<gw[p].target.location_id, gw[p].phone>> \notin crmConversations

\* C19: every call a message delivery makes to the CRM is made for a tenant
\* whose stored instance name is the instance name of the event; when no
\* installation has that name the delivery ends with a failure and without
\* any call to the CRM.
C19_ResolvedByInstance ==
  \A p \in Deliveries :
    (gw[p].pc # "idle" /\ gw[p].event = "messages.upsert") =>
      /\ \A i \in DOMAIN gw[p].log :
           /\ gw[p].log[i][2] \in LocIds
           /\ installations[gw[p].log[i][2]] # NoRow
           /\ installations[gw[p].log[i][2]].evolution_instance_name =
                gw[p].instance
      /\ (GetInstallationByInstanceName(gw[p].instance) = {}) =>
           /\ gw[p].log = <<>>
           /\ (gw[p].pc = "done" /\ gw[p].phone # Absent) =>
                /\ gw[p].status \in {404, 500}
                /\ gw[p].outcome = "noinstallation"

\* C19 witness: a message of instance i2 was relayed into L2 and a message of
\* instance i1 into L1.
C19_Witness ==
  \E p, q \in Deliveries :
    /\ Relayed(p) /\ gw[p].instance = "i2" /\ gw[p].target.location_id = "L2"
    /\ \A i \in DOMAIN gw[p].log : gw[p].log[i][2] = "L2"
    /\ Relayed(q) /\ gw[q].instance = "i1" /\ gw[q].target.location_id = "L1"
    /\ \A i \in DOMAIN gw[q].log : gw[q].log[i][2] = "L1"

\* C19 witness of the failure: a message of instance i2, which no installation
\* has, was answered 404 without a call to the CRM.
C19_NoInstallation ==
  \E p \in Deliveries :
    /\ gw[p].pc = "done" /\ gw[p].instance = "i2" /\ gw[p].phone # Absent
    /\ GetInstallationByInstanceName("i2") = {}
    /\ gw[p].status = 404 /\ gw[p].log = <<>>

(***************************************************************************)
(* Properties of the events that are no OutboundMessage                    *)
(***************************************************************************)
\* the request of c is an event of the given kind sent to POST /webhook/ghl
Hook(c, kind) == req[c].pc # "idle" /\ req[c].kind = kind

C13_UnhandledIgnored ==
  \A c \in Callers :
    (Hook(c, "unhandled") /\ FromInstalledTenant(req[c].ev)) =>
      /\ req[c].pc = "done"
      /\ req[c].status = 200
      /\ req[c].sends = <<>>
      /\ rq[c].pc = "idle"

(***************************************************************************)
(* Properties of sendMessageToWhatsApp and of the store                    *)
(***************************************************************************)
\* C17: when the gateway has accepted the send-text call, a source message
\* id was supplied and the status update to "delivered" has failed, the send
\* goes on: sendMessageToWhatsApp reports success once the last sync time is
\* stored, and the only failure it can still report is the one of that store
\* update.
C17_StatusFailureIsolated ==
  \A c \in GhlHandlers :
    (req[c].pc # "idle" /\ req[c].statusPut = "failed") =>
      /\ req[c].sm.messageId # Absent
      /\ Len(req[c].sends) = 1
      /\ req[c].pc \in {"sm_sync", "done"}
      /\ req[c].pc = "done" =>
           \/ req[c].outcome = "sent" /\ req[c].status = 200
           \/ req[c].outcome = "syncfailed"

\* C17 witness: the status update of a sent message failed and the send was
\* answered with success.
C17_Witness ==
  \E c \in GhlHandlers :
    /\ req[c].pc = "done"
    /\ req[c].statusPut = "failed"
    /\ Len(req[c].sends) = 1
    /\ req[c].outcome = "sent"
    /\ req[c].status = 200

\* C18: once the gateway has accepted the send-text call,
\* sendMessageToWhatsApp reports success, also when the update of the last
\* sync time fails.
C18_SyncFailureIsolated ==
  \A c \in GhlHandlers :
    (/\ req[c].pc = "done"
     /\ req[c].kind = "send"
     /\ Len(req[c].sends) = 1
     /\ req[c].outcome # "send")
    => req[c].outcome = "sent" /\ req[c].status = 200

\* C18, inbound relay: once the inbound message is posted,
\* processIncomingMessage reports success, also when the update of the last
\* sync time fails.
C18_InboundSyncFailureIsolated ==
  \A p \in Deliveries :
    (/\ gw[p].pc = "done"
     /\ ~gw[p].fromMe
     /\ Count(gw[p].log, "messagePostInbound") = 1
     /\ gw[p].outcome # "postfailed")
    => Relayed(p)

\* C20: the save of a token refresh for an installed tenant leaves the
\* instance name, the conversation provider id, the client credentials, the
\* integration status and the last sync time of the installation as stored.
C20_SaveCoalesces ==
  [][\A c \in Callers :
       (/\ rq[c].pc = "rf_save"
        /\ rq'[c].pc = "rf_probe_read"
        /\ installations[rq[c].loc] # NoRow)
       => /\ installations'[rq[c].loc].evolution_instance_name =
               installations[rq[c].loc].evolution_instance_name
          /\ installations'[rq[c].loc].conversation_provider_id =
               installations[rq[c].loc].conversation_provider_id
          /\ installations'[rq[c].loc].client_id =
               installations[rq[c].loc].client_id
          /\ installations'[rq[c].loc].client_secret =
               installations[rq[c].loc].client_secret
          /\ installations'[rq[c].loc].integration_status =
               installations[rq[c].loc].integration_status
          /\ installations'[rq[c].loc].last_sync_at =
               installations[rq[c].loc].last_sync_at]_vars

\* C20, the status alone: the save of a token refresh leaves the integration
\* status of the installation as stored.
C20_SaveKeepsStatus ==
  [][\A c \in Callers :
       (/\ rq[c].pc = "rf_save"
        /\ rq'[c].pc = "rf_probe_read"
        /\ installations[rq[c].loc] # NoRow)
       => installations'[rq[c].loc].integration_status =
            installations[rq[c].loc].integration_status]_vars


(***************************************************************************)
(* Properties of the content variants                                      *)
(***************************************************************************)
\* the posts of a message text to the CRM: the inbound post (type SMS) and
\* the direct-channel post (type Custom)
TextPosts == {"messagePostInbound", "messagePostCustom"}

\* the request of handler p has posted the text t to the CRM
PostedText(p, t) ==
  \A i \in DOMAIN gw[p].log :
    gw[p].log[i][1] \in TextPosts => gw[p].log[i][4] = t

\* C21: the text that a delivery relays is given by the content variant of
\* its message, whether the message was received (fromMe=false) or sent by the
\* company (fromMe=true): the text of the message for a conversation and for
\* an extended text, and [IMAGEM], [ÁUDIO], [VÍDEO], [DOCUMENTO] for an image,
\* an audio, a video and a document; every post of the delivery to the CRM is
\* a post of that text as the message of a conversation.
C21_TextByVariant ==
  \A p \in Deliveries :
    gw[p].pc # "idle" =>
      LET m == gw[p].message
      IN /\ m.variant \in {"conversation", "extendedTextMessage"}
              => PostedText(p, m.text)
         /\ m.variant = "imageMessage" => PostedText(p, "[IMAGEM]")
         /\ m.variant = "audioMessage" => PostedText(p, "[ÁUDIO]")
         /\ m.variant = "videoMessage" => PostedText(p, "[VÍDEO]")
         /\ m.variant = "documentMessage" => PostedText(p, "[DOCUMENTO]")

\* C21 witness: an image with a caption, sent by the company, was relayed over
\* the direct channel as the text [IMAGEM].
C21_Witness ==
  /\ gw["d1"].pc = "done"
  /\ gw["d1"].fromMe
  /\ gw["d1"].outcome = "relayed"
  /\ gw["d1"].message = [variant |-> "imageMessage", text |-> "oi"]
  /\ \E i \in DOMAIN gw["d1"].log :
       gw["d1"].log[i] = <<"messagePostCustom", "L1", "cp1", "[IMAGEM]">>


\* the calls of the relays to the CRM
CrmCalls ==
  {"locationGet", "contactSearch", "contactCreate", "conversationSearch",
   "conversationCreate", "messagePostInbound", "messagePostCustom"}

\* C29: the handling of a gateway event, received or sent by the company, of
\* any content variant, whether its relay succeeds or fails, makes calls to
\* the CRM only: no message is sent through the gateway, and no send of the
\* send relay is started.
C29_NoAutomaticReply ==
  [][/\ \A p \in Deliveries :
          gw'[p].pc # "idle" =>
            \A i \in DOMAIN gw'[p].log : gw'[p].log[i][1] \in CrmCalls
     /\ UNCHANGED <<req, received>>]_vars

\* C29 witness: an audio message received from the number of J1 was relayed
\* to the CRM as [ÁUDIO], with the calls of the inbound relay only.
C29_Witness ==
  /\ gw["d1"].pc = "done"
  /\ ~gw["d1"].fromMe
  /\ gw["d1"].outcome = "relayed"
  /\ gw["d1"].message.variant = "audioMessage"
  /\ Count(gw["d1"].log, "messagePostInbound") = 1
  /\ gw["d1"].log[Len(gw["d1"].log)] =
       <<"messagePostInbound", "L1", "+5511", "[ÁUDIO]">>

(***************************************************************************)
(* Properties of the authorization                                         *)
(***************************************************************************)
\* C22: an authorization callback that comes with a code and without the
\* cookie of the instance name is answered with an error, makes no exchange
\* at the token endpoint and saves no installation.
C22_InstanceNameMandatory ==
  \A c \in Callers :
    (/\ req[c].pc # "idle"
     /\ req[c].kind = "callback"
     /\ req[c].code # Absent
     /\ req[c].cookie = Absent)
    => /\ req[c].pc = "done"
       /\ req[c].status >= 400
       /\ req[c].exchanges = 0
       /\ ~req[c].saved


(***************************************************************************)
(* Properties of the token refresh                                         *)
(***************************************************************************)
\* the refresh of caller c has sent its permission probe
Probed(c) ==
  /\ rq[c].pc # "idle"
  /\ rq[c].pc \in {"rf_probe", "rf_mark", "rq_reauth"} \/ rq[c].probe # 0

\* C23: in a token refresh the stored refresh token is exchanged at the token
\* endpoint, then the token pair returned is saved, and only then the
\* permission probe is sent; the probe carries an access token that the token
\* endpoint has issued in this refresh or after it, never the token of before
\* the refresh and never an absent one.
C23_RefreshOrder ==
  \A c \in Callers :
    /\ rq[c].pc = "rf_post" => rq[c].grant = 0 /\ rq[c].probeAuth = Absent
    /\ rq[c].pc = "rf_save" => rq[c].grant # 0 /\ rq[c].probeAuth = Absent
    /\ Probed(c) =>
         /\ rq[c].grant # 0
         /\ \E n \in rq[c].grant..idp.issued :
              rq[c].probeAuth = Grant(n).access_token

\* the step is a step of the refresh of caller c before its exchange has
\* succeeded
BeforeGrant(c) ==
  /\ rq'[c] # rq[c]
  /\ rq[c].pc \in {"rf_read", "rf_post"}
  /\ rq'[c].grant = 0

\* C24: a refresh whose exchange at the token endpoint fails rejects the
\* request of the caller, sends no permission probe and writes nothing: the
\* stored access token, refresh token, expiry and integration status of the
\* tenant are as they were.
C24_ExchangeFailureSurfaced ==
  [][\A c \in Callers :
       BeforeGrant(c) =>
         /\ installations' = installations
         /\ rq'[c].pc \in {"rf_post", "done"}
         /\ rq'[c].pc = "done" =>
              /\ rq'[c].result = "refreshfailed"
              /\ rq'[c].probeAuth = Absent
              /\ rq'[c].probe = 0
              /\ rq'[c].resubmits = 0]_vars

\* C24 witness: a refresh has failed at the token endpoint, and the tenant
\* has the token pair and the status of its installation.
C24_Witness ==
  \E c \in Callers :
    /\ rq[c].pc = "done"
    /\ rq[c].refreshes = 1
    /\ rq[c].sentRt = "rt0"
    /\ rq[c].grant = 0
    /\ rq[c].result = "refreshfailed"
    /\ installations["L1"].access_token = "at0"
    /\ installations["L1"].refresh_token = "rt0"
    /\ installations["L1"].updated_at = InstalledMs
    /\ installations["L1"].integration_status = "active"

\* the send of handler c has ended in the contact lookup with a failed token
\* refresh: the exchange failed, or the permission probe failed
RefreshFailedInRelay(c) ==
  /\ req[c].pc = "done"
  /\ req[c].outcome = "contact"
  /\ rq[c].pc = "done"
  /\ rq[c].refreshes >= 1
  /\ rq[c].result \in {"refreshfailed", "autherror"}

\* C25: when the token refresh of a CRM request of a relay fails, at the
\* token endpoint or at the permission probe, the relay ends with a failure
\* result and the integration status of the tenant is error.
C25_RefreshFailureMarksError ==
  \A c \in GhlHandlers :
    RefreshFailedInRelay(c) =>
      /\ req[c].status >= 400
      /\ installations[req[c].sm.resourceId].integration_status = "error"

\* C25, the result alone: when the token refresh of a CRM request of a relay
\* fails, the relay ends with a failure result.
C25_RefreshFailureIsResult ==
  \A c \in GhlHandlers :
    RefreshFailedInRelay(c) => req[c].status >= 400


(***************************************************************************)
(* Properties of the similar-message heuristic                             *)
(***************************************************************************)
\* the cached entries inserted less than 10 s ago whose sender and recipient
\* are those of the key k
InsertedSimilar(k) ==
  {c \in DOMAIN recentProcessedMessages :
     /\ c[2] = k[2]
     /\ c[3] = k[3]
     /\ now - recentProcessedMessages[c] < SIMILAR_MS}

\* C26: a fromMe=true delivery whose fingerprint is not cached and whose
\* provider timestamp is less than 5 s before the time of processing is
\* answered with success, without relay and without cache insertion, exactly
\* if the cache holds an entry inserted less than 10 s ago with the same
\* sender and recipient; a delivery with an older timestamp is admitted.
C26_SimilarHeuristic ==
  [][\A p \in Deliveries :
       (Receipt(p) /\ gw'[p].key \notin DOMAIN recentProcessedMessages) =>
         LET k == gw'[p].key
             recent == now - k[4] * MS_PER_S < RECENT_MS
         IN IF recent /\ InsertedSimilar(k) # {}
            THEN /\ Suppressed(gw'[p], {"similar"})
                 /\ UNCHANGED <<recentProcessedMessages, timers>>
            ELSE /\ gw'[p].pc = "ob_lookup"
                 /\ k \in DOMAIN recentProcessedMessages']_vars


(***************************************************************************)
(* Properties of the INSTALL event                                         *)
(***************************************************************************)
\* the step ends the provisioning of the INSTALL event of handler c
ProvisioningReturns(c) ==
  /\ req[c].pc \in {"su_active", "su_error"}
  /\ req'[c].pc = "noresponse"

RECURSIVE FirstPresent(_)
FirstPresent(values) ==
  IF values = <<>> THEN Absent
  ELSE IF Head(values) # Absent THEN Head(values)
  ELSE FirstPresent(Tail(values))

\* C28: the tenant identifier of a request is its path parameter, else its
\* body field, else its query parameter, else the value of its cookie; a
\* later source is used only when every earlier one is absent.
C28_Precedence ==
  \A c \in Callers :
    (req[c].pc # "idle" /\ req[c].kind = "tenant") =>
      LET r == req[c].request
      IN req[c].locationId =
           FirstPresent(<<r.params, r.body, r.query, r.cookie>>)

\* C28, as the code does it: the fourth source is the header
\* x-ghl-location-id, and a cookie is not read.
C28_PrecedenceWithHeader ==
  \A c \in Callers :
    (req[c].pc # "idle" /\ req[c].kind = "tenant") =>
      LET r == req[c].request
      IN req[c].locationId =
           FirstPresent(<<r.params, r.body, r.query, r.header>>)

(***************************************************************************)
(* Properties of the contact creation under concurrent deliveries          *)
(***************************************************************************)
\* C30: a fromMe=false delivery whose search found no contact makes its
\* contact-create call whatever the CRM holds by then: when another delivery
\* of the number has created the contact since the search, the call creates
\* a second contact of the number.
C30_CreateUnprotected ==
  [][\A p \in Deliveries :
       (gw[p].pc = "in_create" /\ gw'[p].pc # "in_create") =>
         /\ Count(gw'[p].log, "contactCreate") = 1
         /\ gw'[p].dup <=>
              /\ gw'[p].pc = "in_convsearch"
              /\ ContactFound(crmContacts, gw[p].target.location_id,
                              gw[p].phone)]_vars

\* C30 witness: two deliveries of a number that had no contact are in their
\* handlers together, each has made one contact-create call for the number
\* in the same location, and the second call created a second contact.
C30_Witness ==
  \E p, q \in Deliveries :
    /\ p # q
    /\ InboundMessage(p) /\ InboundMessage(q)
    /\ gw[p].fresh /\ gw[q].fresh
    /\ gw[p].phone = gw[q].phone
    /\ gw[p].target # NoRow /\ gw[q].target # NoRow
    /\ gw[p].target.location_id = gw[q].target.location_id
    /\ Count(gw[p].log, "contactSearch") = 1
    /\ Count(gw[q].log, "contactSearch") = 1
    /\ Count(gw[p].log, "contactCreate") = 1
    /\ Count(gw[q].log, "contactCreate") = 1
    /\ ~gw[p].dup /\ gw[q].dup


(***************************************************************************)
(* Properties of the validation of the CRM webhook                         *)
(***************************************************************************)
\* the status the claim expects for an event: 400 without a subaccount id,
\* 404 without an installation of the subaccount, 401 when the stored client
\* credentials are missing or are not those of the application, 0 otherwise
ExpectedRefusal(ev) ==
  IF ev.locationId = Absent THEN 400
  ELSE IF installations[ev.locationId] = NoRow THEN 404
  ELSE IF \/ installations[ev.locationId].client_id # GHL_APP_CLIENT_ID
          \/ installations[ev.locationId].client_secret # GHL_APP_CLIENT_SECRET
       THEN 401
  ELSE 0

\* C31: an event of the CRM webhook that is no UNINSTALL and names no
\* subaccount, or one without installation, or one whose stored client
\* credentials are missing or differ from those of the application, is
\* answered with 400, 404 or 401 in the step that receives it; the step
\* changes neither the store nor the token state, starts no CRM request and
\* makes no call to the gateway, and the request takes no further step.
C31_InvalidRefused ==
  [][received' # received =>
       \E c \in Callers :
         /\ \A d \in Callers \ {c} : req'[d] = req[d]
         /\ req'[c].pc # "idle"
         /\ (req'[c].ev.type # "UNINSTALL" /\ ExpectedRefusal(req'[c].ev) # 0) =>
              /\ req'[c].pc = "done"
              /\ req'[c].status = ExpectedRefusal(req'[c].ev)
              /\ req'[c].status \in {400, 404, 401}
              /\ req'[c].sends = <<>>
              /\ UNCHANGED <<installations, gwVars, tokenVars>>]_vars

\* C31 witness: an INSTALL of L2, whose row has the client id of another
\* application, was answered with 401, and an event of another type without
\* subaccount id with 400.
C31_Witness ==
  /\ installations["L2"] # NoRow
  /\ installations["L2"].client_id = "other-id"
  /\ req["c1"].pc = "done" /\ req["c1"].kind = "install"
  /\ req["c1"].ev.locationId = "L2" /\ req["c1"].status = 401
  /\ req["c2"].pc = "done" /\ req["c2"].kind = "unhandled"
  /\ req["c2"].ev.locationId = Absent /\ req["c2"].status = 400

\* C32: the handling of a delivery of the CRM webhook that passed the
\* validation never ends without a response: no handler returns without a
\* call of res, and a request that is over has the status of its response.
C32_AlwaysAnswered ==
  \A c \in Callers :
    /\ req[c].pc # "noresponse"
    /\ req[c].pc = "done" => req[c].status # 0

(***************************************************************************)
(* Properties of the routes guarded by the client credentials              *)
(***************************************************************************)
\* the request of handler c has passed validateGHLCredentials
Validated(c) ==
  req[c].pc # "idle" /\ req[c].kind = "guarded" /\ req[c].validated # Absent

\* C33: a request that has passed validateGHLCredentials works on the
\* tenant whose credentials were validated: the resourceId its route hands
\* to setupIntegration, sendMessageToWhatsApp or syncContacts, and reads and
\* writes the store with, is the locationId of the validation.
C33_OperatesOnValidated ==
  \A c \in Callers :
    (Validated(c) /\ req[c].ev.locationId # Absent) =>
      req[c].ev.locationId = req[c].validated

(***************************************************************************)
(* Properties of the dedup cache with two instances                        *)
(***************************************************************************)
\* C34: the first fromMe=true event of an instance is not suppressed,
\* whatever events of the other instance were received before it: the cache
\* then holds no entry that an event of its instance has created.
C34_InstancesIndependent ==
  [][\A p \in Deliveries :
       (gw[p].pc = "idle" /\ gw'[p].pc # "idle" /\ gw'[p].fromMe) =>
         gw'[p].outcome \notin {"duplicate", "similar"}]_vars

(***************************************************************************)
(* Properties of the dedup cache after a failed relay                      *)
(***************************************************************************)
\* the delivery in handler p has created the cache entry of key k, and its
\* relay into the CRM has ended
RelayEndedOf(p, k) ==
  /\ gw[p].pc = "done"
  /\ gw[p].fromMe
  /\ gw[p].key = k
  /\ k \in DOMAIN recentProcessedMessages
  /\ gw[p].at = recentProcessedMessages[k]
  /\ gw[p].outcome \notin {"duplicate", "similar", "norecipient"}

\* C35: a fromMe=true event is suppressed as a duplicate only if the relay
\* of the delivery that created its cache entry has not failed: after a
\* relay that ended with an error status, the redelivery is relayed again.
C35_FailedRelayRetried ==
  [][\A q \in Deliveries :
       (Received(q) /\ gw'[q].outcome = "duplicate") =>
         \A p \in Deliveries \ {q} :
           RelayEndedOf(p, gw'[q].key) => gw[p].status = 200]_vars

(***************************************************************************)
(* Properties of the validity window of the access token                   *)
(***************************************************************************)
\* C36: a step that leaves the stored access token of a tenant as it is, as
\* every step but the save of an authorization or of a token refresh does,
\* never turns an expired token into one that getAccessToken returns.
C36_WindowKept ==
  [][\A l \in LocIds :
       (/\ installations[l] # NoRow
        /\ installations'[l] # NoRow
        /\ installations'[l].access_token = installations[l].access_token
        /\ GetAccessToken(l, now) = Absent)
       => GetAccessToken(l, now)' = Absent]_vars

(***************************************************************************)
(* Properties of the UNINSTALL event                                       *)
(***************************************************************************)
\* C37: a step of the handling of an UNINSTALL removes at most one
\* installation and leaves every other installation as it is.
C37_RemovesAtMostOne ==
  [][/\ Cardinality({l \in LocIds : installations'[l] # installations[l]}) <= 1
     /\ \A l \in LocIds :
          installations'[l] # installations[l] => installations'[l] = NoRow]_vars

(***************************************************************************)
(* Properties of the integration status under token refreshes              *)
(***************************************************************************)
\* C38: the token handling changes the integration status of a tenant to
\* error only: no step of a CRM request or of its token refresh leaves a
\* tenant active whose status was error or pending.
C38_RefreshNeverActivates ==
  [][\A l \in LocIds :
       (/\ installations[l] # NoRow
        /\ installations'[l] # NoRow
        /\ installations'[l].integration_status # installations[l].integration_status)
       => installations'[l].integration_status = "error"]_vars

(***************************************************************************)
(* Properties of the relay without conversation provider id                *)
(***************************************************************************)
\* C39: a direct-channel relay that has failed because the tenant has no
\* conversation provider id has written nothing to the CRM: it has made
\* neither a contact-create call nor a message post.
C39_NoWriteWithoutProvider ==
  \A p \in Deliveries :
    (gw[p].pc = "done" /\ gw[p].fromMe /\ gw[p].outcome = "noprovider") =>
      /\ Count(gw[p].log, "contactCreate") = 0
      /\ Count(gw[p].log, "messagePostCustom") = 0
\* C40: no two installation records carry the same gateway instance name,
\* so that the instance name of a gateway event names one tenant only.
C40_InstanceNamesUnique ==
  \A l1, l2 \in LocIds :
    (/\ l1 # l2
     /\ installations[l1] # NoRow
     /\ installations[l2] # NoRow
     /\ installations[l1].evolution_instance_name # Absent)
      => installations[l1].evolution_instance_name
           # installations[l2].evolution_instance_name

====
